---- MODULE Spec2Model ----
(***************************************************************************)
(* Model of the Google-Drive-to-MPC-Fill tools:                            *)
(*   src/google-drive-to-mpc-fill.py  (GoogleDriveLister: bracket lookup,  *)
(*       _remove_duplicates, get_folder_contents_via_scraping,             *)
(*       generate_mpcfill_xml)                                             *)
(*   src/combine-mpc-fill-files.py    (find_next_bracket,                  *)
(*       combine_xml_files)                                                *)
(*                                                                         *)
(* Each component has its own specification over its own group of          *)
(* variables; the other groups stay at their idle values.                  *)
(*   SpecBracket    the two bracket lookups, applied to drawn quantities   *)
(*   SpecDedup      _remove_duplicates, applied to a drawn entry list and   *)
(*                  then to its own output                                  *)
(*   SpecAssembler  generate_mpcfill_xml on a drawn listing and arguments   *)
(*   SpecMerger     combine_xml_files on drawn input documents and overrides *)
(*   SpecOrder      either of the two, for what holds of every document      *)
(*   SpecTraversal  get_folder_contents_via_scraping on a drawn folder       *)
(*                  world, one action per stretch of code between calls      *)
(*   SpecTraversalFair  the same, with weak fairness of the steps            *)
(*   SpecClassifier _is_folder, applied to a drawn item                      *)
(***************************************************************************)
EXTENDS Integers, Sequences, FiniteSets, TLC

VARIABLES
    bq1, bq2,        \* bracket lookup: the two quantities handed to the lookups
    bpc,             \* bracket lookup: "start" | "assembler" | "done"
    basm,            \* <<_find_next_bracket(bq1), _find_next_bracket(bq2)>>
    bmrg,            \* <<find_next_bracket(bq1), find_next_bracket(bq2)>>
    dd_files,        \* deduplicator: the list handed to _remove_duplicates
    dd_pc,           \* deduplicator: "start" | "once" | "twice"
    dd_once,         \* _remove_duplicates(dd_files)
    dd_twice,        \* _remove_duplicates(dd_once)
    a_files,         \* assembler: parameter files (the flat listing)
    a_quantity,      \* assembler: parameter quantity, None or <<n>>
    a_bracket,       \* assembler: parameter bracket, None or <<n>>
    a_stock,         \* assembler: parameter stock
    a_foil,          \* assembler: parameter foil
    a_pairs,         \* assembler: parameter double_sided_pairs
    a_cardback,      \* assembler: parameter cardback
    a_multiples,     \* assembler: parameter card_multiples (name -> count)
    a_exclude,       \* assembler: parameter exclude_names
    a_pc,            \* assembler: "start" | "written" | "no_files"
    a_doc,           \* assembler: the order element written to output_file
    a_log,           \* assembler: the lines printed
    a_exit,          \* assembler: exit status of the process of main, None while it runs
    m_input_files,   \* merger: parameter input_files, as what each path holds
    m_stock,         \* merger: parameter stock, None or <<text>>
    m_foil,          \* merger: parameter foil, None or <<bool>>
    m_cardback,      \* merger: parameter cardback, None or <<text>>
    m_auto_bracket,  \* merger: parameter auto_bracket
    m_pc,            \* merger: "start" | "written" | "exit1"
    m_doc,           \* merger: the order element written to output_file
    m_log,           \* merger: the lines printed
    t_world,         \* traversal: the root folder id and the markup of each folder
    t_recursive,     \* traversal: parameter recursive
    t_max_depth,     \* traversal: parameter max_depth
    t_exclude,       \* traversal: parameter exclude_folders
    t_pc,            \* traversal: "start" | "running" | "done"
    t_stack,         \* traversal: the activations of the function, root first
    t_calls,         \* traversal: every call made, in order
    t_fetches,       \* traversal: every session.get issued, in order
    t_result,        \* traversal: the list the root call returned
    c_item,          \* classifier: the item handed to _is_folder
    c_pc,            \* classifier: "start" | "done"
    c_is_folder      \* classifier: what _is_folder returned

bracketVars == <<bq1, bq2, bpc, basm, bmrg>>
dedupVars == <<dd_files, dd_pc, dd_once, dd_twice>>
asmArgs == <<a_files, a_quantity, a_bracket, a_stock, a_foil, a_pairs,
             a_cardback, a_multiples, a_exclude>>
asmVars == <<asmArgs, a_pc, a_doc, a_log, a_exit>>
mrgArgs == <<m_input_files, m_stock, m_foil, m_cardback, m_auto_bracket>>
mrgVars == <<mrgArgs, m_pc, m_doc, m_log>>
trvArgs == <<t_world, t_recursive, t_max_depth, t_exclude>>
trvVars == <<trvArgs, t_pc, t_stack, t_calls, t_fetches, t_result>>
clsVars == <<c_item, c_pc, c_is_folder>>
vars == <<bracketVars, dedupVars, asmVars, mrgVars, trvVars, clsVars>>

\* What each component leaves alone: the groups of the other components.
exceptBracket == <<dedupVars, asmVars, mrgVars, trvVars, clsVars>>
exceptDedup == <<bracketVars, asmVars, mrgVars, trvVars, clsVars>>
exceptAssembler == <<bracketVars, dedupVars, mrgVars, trvVars, clsVars>>
exceptMerger == <<bracketVars, dedupVars, asmVars, trvVars, clsVars>>
exceptTraversal == <<bracketVars, dedupVars, asmVars, mrgVars, clsVars>>
exceptClassifier == <<bracketVars, dedupVars, asmVars, mrgVars, trvVars>>

\* Python's None, and an optional integer that is given.
None == <<>>
Some(v) == <<v>>

\* The order element before anything is written.
NoDocument ==
    [quantity |-> 0, bracket |-> 0, stock |-> "", foil |-> "",
     fronts |-> <<>>, backs |-> <<>>, cardback |-> ""]

(***************************************************************************)
(* The idle value of each group: what its variables hold in the            *)
(* specifications of the other components.                                 *)
(***************************************************************************)
IdleBracket ==
    /\ bq1 = 0
    /\ bq2 = 0
    /\ bpc = "idle"
    /\ basm = <<>>
    /\ bmrg = <<>>

IdleDedup ==
    /\ dd_files = <<>>
    /\ dd_pc = "idle"
    /\ dd_once = <<>>
    /\ dd_twice = <<>>

IdleAssembler ==
    /\ a_files = <<>>
    /\ a_quantity = None
    /\ a_bracket = None
    /\ a_stock = ""
    /\ a_foil = FALSE
    /\ a_pairs = <<>>
    /\ a_cardback = ""
    /\ a_multiples = <<>>
    /\ a_exclude = <<>>
    /\ a_pc = "idle"
    /\ a_doc = NoDocument
    /\ a_log = <<>>
    /\ a_exit = None

IdleMerger ==
    /\ m_input_files = <<>>
    /\ m_stock = None
    /\ m_foil = None
    /\ m_cardback = None
    /\ m_auto_bracket = TRUE
    /\ m_pc = "idle"
    /\ m_doc = NoDocument
    /\ m_log = <<>>

IdleTraversal ==
    /\ t_world = [root |-> "", pages |-> <<>>]
    /\ t_recursive = FALSE
    /\ t_max_depth = 0
    /\ t_exclude = <<>>
    /\ t_pc = "idle"
    /\ t_stack = <<>>
    /\ t_calls = <<>>
    /\ t_fetches = <<>>
    /\ t_result = <<>>

IdleClassifier ==
    /\ c_item = <<>>
    /\ c_pc = "idle"
    /\ c_is_folder = FALSE

IdleExceptBracket == IdleDedup /\ IdleAssembler /\ IdleMerger /\ IdleTraversal /\ IdleClassifier
IdleExceptDedup == IdleBracket /\ IdleAssembler /\ IdleMerger /\ IdleTraversal /\ IdleClassifier
IdleExceptAssembler == IdleBracket /\ IdleDedup /\ IdleMerger /\ IdleTraversal /\ IdleClassifier
IdleExceptMerger == IdleBracket /\ IdleDedup /\ IdleAssembler /\ IdleTraversal /\ IdleClassifier
IdleExceptTraversal == IdleBracket /\ IdleDedup /\ IdleAssembler /\ IdleMerger /\ IdleClassifier
IdleExceptClassifier ==
    IdleBracket /\ IdleDedup /\ IdleAssembler /\ IdleMerger /\ IdleTraversal

(***************************************************************************)
(* Bounds of the model.                                                    *)
(***************************************************************************)
\* Largest quantity handed to a bracket lookup (the table ends at 612).
MaxQuantity == 614
\* Longest entry list handed to the deduplicator on its own.
MaxDedupLen == 3
\* Longest flat listing handed to the assembler.
MaxFiles == 3
\* Most pairing requests handed to the assembler.
MaxPairs == 2
\* Most input documents handed to the merger.
MaxDocs == 2
\* Largest max_depth handed to the traversal.
MaxDepth == 3

(***************************************************************************)
(* Helpers: Python's str and list operations on TLA+ strings and sequences. *)
(***************************************************************************)
SetMin(S) == CHOOSE x \in S : \A y \in S : x <= y
SetMax(S) == CHOOSE x \in S : \A y \in S : y <= x

\* s[i], 1-based
CharAt(s, i) == SubSeq(s, i, i)

IsSpace(c) == c \in {" ", "\t", "\n", "\r"}

\* str.strip()
strip(s) ==
    LET keep == {i \in 1..Len(s) : ~IsSpace(CharAt(s, i))}
    IN  IF keep = {} THEN "" ELSE SubSeq(s, SetMin(keep), SetMax(keep))

\* str.startswith(p)
startswith(s, p) == Len(s) >= Len(p) /\ SubSeq(s, 1, Len(p)) = p

\* p in s
contains(s, p) ==
    \E i \in 1..(Len(s) - Len(p) + 1) : SubSeq(s, i, i + Len(p) - 1) = p

\* str.count(c) for a single character c
count(s, c) == Cardinality({i \in 1..Len(s) : CharAt(s, i) = c})

\* All sequences over S of length at most n.
SeqsUpTo(S, n) == UNION {[1..k -> S] : k \in 0..n}

\* The sequences of SeqsUpTo(S, n) that repeat no element.
DistinctSeqsUpTo(S, n) ==
    {q \in SeqsUpTo(S, n) : \A i, j \in 1..Len(q) : q[i] = q[j] => i = j}

UpperCase == "ABCDEFGHIJKLMNOPQRSTUVWXYZ"
LowerCase == "abcdefghijklmnopqrstuvwxyz"

UpperChars == {CharAt(UpperCase, i) : i \in 1..Len(UpperCase)}

\* The lower-case letter of each upper-case letter.
LowerOf ==
    [c \in UpperChars |->
        CharAt(LowerCase, CHOOSE i \in 1..Len(UpperCase) : CharAt(UpperCase, i) = c)]

LowerChar(c) == IF c \in UpperChars THEN LowerOf[c] ELSE c

\* str.lower() (ASCII letters)
RECURSIVE lower(_)
lower(s) ==
    IF Len(s) = 0 THEN ""
    ELSE LowerChar(CharAt(s, 1)) \o lower(SubSeq(s, 2, Len(s)))

\* str.replace(old, ''): every occurrence of old, left to right, removed
RECURSIVE replace_remove(_, _)
replace_remove(s, old) ==
    IF Len(s) < Len(old) THEN s
    ELSE IF SubSeq(s, 1, Len(old)) = old
         THEN replace_remove(SubSeq(s, Len(old) + 1, Len(s)), old)
         ELSE CharAt(s, 1) \o replace_remove(SubSeq(s, 2, Len(s)), old)

\* range(n) copies of item appended to a list
Copies(item, n) == [k \in 1..n |-> item]

(***************************************************************************)
(* Bracket lookup.                                                         *)
(***************************************************************************)
\* google-drive-to-mpc-fill.py:35
DEFAULT_BRACKET_SIZE ==
    <<18, 36, 55, 72, 90, 108, 126, 144, 162, 180, 198, 216, 234, 396, 504, 612>>

\* combine-mpc-fill-files.py:21
MERGER_DEFAULT_BRACKET_SIZE ==
    <<18, 36, 55, 72, 90, 108, 126, 144, 162, 180, 198, 216, 234, 396, 504, 612>>

\* GoogleDriveLister.__init__: self.bracket_sizes = DEFAULT_BRACKET_SIZE
bracket_sizes == DEFAULT_BRACKET_SIZE

\* The loop "for bracket in sizes: if bracket >= quantity: return bracket",
\* from position i on, and the statement after the loop.
RECURSIVE BracketScan(_, _, _)
BracketScan(sizes, i, quantity) ==
    IF i > Len(sizes)
    THEN (IF Len(sizes) > 0 THEN sizes[Len(sizes)] ELSE quantity)
    ELSE IF sizes[i] >= quantity
         THEN sizes[i]
         ELSE BracketScan(sizes, i + 1, quantity)

\* Mutant: the comparison made strict.
RECURSIVE BracketScanStrict(_, _, _)
BracketScanStrict(sizes, i, quantity) ==
    IF i > Len(sizes)
    THEN (IF Len(sizes) > 0 THEN sizes[Len(sizes)] ELSE quantity)
    ELSE IF sizes[i] > quantity
         THEN sizes[i]
         ELSE BracketScanStrict(sizes, i + 1, quantity)

FindNextBracketStrict(quantity) == BracketScanStrict(bracket_sizes, 1, quantity)

\* Mutant: a quantity beyond the table wraps to the first entry.
FindNextBracketWrap(quantity) ==
    IF \E i \in 1..Len(MERGER_DEFAULT_BRACKET_SIZE) :
           MERGER_DEFAULT_BRACKET_SIZE[i] >= quantity
    THEN BracketScan(MERGER_DEFAULT_BRACKET_SIZE, 1, quantity)
    ELSE MERGER_DEFAULT_BRACKET_SIZE[1]

\* GoogleDriveLister._find_next_bracket
_find_next_bracket(quantity) == BracketScan(bracket_sizes, 1, quantity)

\* combine-mpc-fill-files.py find_next_bracket
find_next_bracket(quantity) == BracketScan(MERGER_DEFAULT_BRACKET_SIZE, 1, quantity)

InitBracket ==
    /\ IdleExceptBracket
    /\ bq1 \in 0..MaxQuantity
    /\ bq2 \in bq1..MaxQuantity
    /\ bpc = "start"
    /\ basm = <<>>
    /\ bmrg = <<>>

\* The assembler's lookup is applied to both quantities.
CallAssemblerBracket ==
    /\ bpc = "start"
    /\ basm' = <<_find_next_bracket(bq1), _find_next_bracket(bq2)>>
    /\ bpc' = "assembler"
    /\ UNCHANGED <<bq1, bq2, bmrg, exceptBracket>>

\* The merger's lookup is applied to both quantities.
CallMergerBracket ==
    /\ bpc = "assembler"
    /\ bmrg' = <<find_next_bracket(bq1), find_next_bracket(bq2)>>
    /\ bpc' = "done"
    /\ UNCHANGED <<bq1, bq2, basm, exceptBracket>>

NextBracket ==
    \/ CallAssemblerBracket
    \/ CallMergerBracket

SpecBracket == InitBracket /\ [][NextBracket]_vars

(***************************************************************************)
(* Deduplicator / Validator: GoogleDriveLister._remove_duplicates.         *)
(***************************************************************************)
\* Lines 964-969: names that look like JavaScript code or system data.
LooksLikeScript(name) ==
    \/ startswith(name, "window.")
    \/ startswith(name, "AF_initDataCallback")
    \/ startswith(name, "%.@.")
    \/ contains(name, "null,null,null")
    \/ Len(name) > 1000
    \/ count(name, "\"") > 10

\* Lines 960-978: the entry is skipped before the duplicate test.
\* name is the stripped name.
IsInvalidEntry(name, file_id) ==
    \/ name = "" \/ Len(name) < 2
    \/ LooksLikeScript(name)
    \/ (file_id # "" /\ Len(file_id) < 10)

\* Mutant: the raw name, not the stripped one, is remembered as seen.
SeenNamesAddRaw(seen_names, raw_name, name) == seen_names \cup {raw_name}

\* Line 987: seen_names.add(name)
SeenNamesAdd(seen_names, raw_name, name) == seen_names \cup {name}

\* The id is remembered as seen also when it is empty.
SeenIdsAddEmpty(seen_ids, file_id) == seen_ids \cup {file_id}

\* Lines 985-986: if file_id: seen_ids.add(file_id)
SeenIdsAdd(seen_ids, file_id) ==
    IF file_id # "" THEN seen_ids \cup {file_id} ELSE seen_ids

\* Lines 955-991: the loop over files from position i on.
RECURSIVE RemoveDuplicatesLoop(_, _, _, _, _)
RemoveDuplicatesLoop(files, i, seen_ids, seen_names, unique_files) ==
    IF i > Len(files) THEN unique_files
    ELSE
        LET file_item == files[i]
            name == strip(file_item.name)
            file_id == file_item.id
        IN  IF IsInvalidEntry(name, file_id)
            THEN RemoveDuplicatesLoop(files, i + 1, seen_ids, seen_names, unique_files)
            ELSE IF file_id \in seen_ids \/ name \in seen_names
            THEN RemoveDuplicatesLoop(files, i + 1, seen_ids, seen_names, unique_files)
            ELSE RemoveDuplicatesLoop(files, i + 1,
                     SeenIdsAdd(seen_ids, file_id),
                     SeenNamesAdd(seen_names, file_item.name, name),
                     Append(unique_files, [file_item EXCEPT !.name = name]))

\* GoogleDriveLister._remove_duplicates
_remove_duplicates(files) == RemoveDuplicatesLoop(files, 1, {}, {}, <<>>)

\* Names and ids the deduplicator is tried on: a name with surrounding
\* blanks, a one-character name, a script-noise name; an empty id, an id
\* shorter than 10 characters, ids of 10 and of 11 characters.
DedupNames == {"cat.png", " cat.png ", "dog.png", "a", "window.x"}
DedupIds == {"", "short6", "id_cat_010", "id_dog_0011"}
DedupEntries == [name : DedupNames, id : DedupIds, isFolder : {FALSE}]

InitDedup ==
    /\ IdleExceptDedup
    /\ dd_files \in SeqsUpTo(DedupEntries, MaxDedupLen)
    /\ dd_pc = "start"
    /\ dd_once = <<>>
    /\ dd_twice = <<>>

\* _remove_duplicates is applied to the drawn list.
RemoveDuplicatesOnce ==
    /\ dd_pc = "start"
    /\ dd_once' = _remove_duplicates(dd_files)
    /\ dd_pc' = "once"
    /\ UNCHANGED <<dd_files, dd_twice, exceptDedup>>

\* _remove_duplicates is applied to its own output.
RemoveDuplicatesTwice ==
    /\ dd_pc = "once"
    /\ dd_twice' = _remove_duplicates(dd_once)
    /\ dd_pc' = "twice"
    /\ UNCHANGED <<dd_files, dd_once, exceptDedup>>

NextDedup ==
    \/ RemoveDuplicatesOnce
    \/ RemoveDuplicatesTwice

SpecDedup == InitDedup /\ [][NextDedup]_vars

(***************************************************************************)
(* Claims about the deduplicator.                                          *)
(***************************************************************************)
\* C7: deduplication is idempotent: applied to its own output, the
\* deduplicator returns the same list (same entries, same order).
C7_DedupIdempotent ==
    dd_pc = "twice" => dd_twice = dd_once

\* A list with a blank-padded duplicate name, a rejected entry and a kept
\* entry has been deduplicated twice.
C7_Witness ==
    /\ dd_pc = "twice"
    /\ Len(dd_files) = 3
    /\ Len(dd_once) = 2
    /\ dd_files[1].name = " cat.png "
    /\ dd_files[2].name = "cat.png"
    /\ dd_once[1].name = "cat.png"
    /\ dd_once[2].name = "dog.png"
    /\ dd_twice = dd_once

(***************************************************************************)
(* Claims about the bracket lookup.                                        *)
(***************************************************************************)
\* The table of the specification, as a set.
BracketTable ==
    {18, 36, 55, 72, 90, 108, 126, 144, 162, 180, 198, 216, 234, 396, 504, 612}

\* The smallest entry of the table that is >= q, and 612 when there is none.
SmallestBracketAtLeast(q) ==
    IF \E e \in BracketTable : e >= q
    THEN CHOOSE e \in BracketTable :
             e >= q /\ \A f \in BracketTable : f >= q => e <= f
    ELSE 612

\* C1: for every quantity q >= 0 both lookups return the smallest table entry
\* that is >= q, and 612 when q exceeds every entry; bracket(0) = 18,
\* bracket(612) = 612, bracket(613) = 612.
C1_BracketLookup ==
    bpc = "done" =>
        /\ basm[1] = SmallestBracketAtLeast(bq1)
        /\ bmrg[1] = SmallestBracketAtLeast(bq1)
        /\ (bq1 = 0 => basm[1] = 18 /\ bmrg[1] = 18)
        /\ (bq1 = 612 => basm[1] = 612 /\ bmrg[1] = 612)
        /\ (bq1 = 613 => basm[1] = 612 /\ bmrg[1] = 612)

C1_Witness ==
    bpc = "done" /\ bq1 = 613 /\ basm[1] = 612 /\ bmrg[1] = 612

\* C2: the lookup is monotonic: q1 <= q2 implies bracket(q1) <= bracket(q2).
C2_BracketMonotonic ==
    (bpc = "done" /\ bq1 <= bq2) => (basm[1] <= basm[2] /\ bmrg[1] <= bmrg[2])

C2_Witness ==
    bpc = "done" /\ bq1 = 18 /\ bq2 = 613 /\ basm[1] < basm[2] /\ bmrg[1] < bmrg[2]

(***************************************************************************)
(* Order Assembler: GoogleDriveLister.generate_mpcfill_xml.                *)
(* A card of the order element is a record; its slots text str(i) is kept   *)
(* as the number i, quantity and bracket likewise.  An order element with   *)
(* backs = <<>> has no backs section.                                       *)
(***************************************************************************)
\* The item name compared as it is written.
IsExcludedNameExact(name, exclude_names) ==
    \E k \in 1..Len(exclude_names) : name = exclude_names[k]

\* Line 1201: item name, lower-cased, is among the lower-cased exclude names.
IsExcludedName(name, exclude_names) ==
    \E k \in 1..Len(exclude_names) : lower(name) = lower(exclude_names[k])

\* Line 1196: folders are filtered out.
NonFolderItems(files) == SelectSeq(files, LAMBDA item : ~item.isFolder)

\* Lines 1196-1201: file_items after both filters.
FileItems(files, exclude_names) ==
    IF exclude_names # <<>>
    THEN SelectSeq(NonFolderItems(files),
                   LAMBDA item : ~IsExcludedName(item.name, exclude_names))
    ELSE NonFolderItems(files)

\* Line 1216: file_map = {name: item}; a later item replaces an earlier one
\* of the same name.  InFileMap is "file_map.get(name)" being truthy.
InFileMap(file_items, name) ==
    \E k \in 1..Len(file_items) : file_items[k].name = name

FileMapGet(file_items, name) ==
    file_items[SetMax({k \in 1..Len(file_items) : file_items[k].name = name})]

\* card_multiples.get(name, 1) if card_multiples else 1
Multiple(card_multiples, name) ==
    IF DOMAIN card_multiples # {} /\ name \in DOMAIN card_multiples
    THEN card_multiples[name]
    ELSE 1

\* Mutant: only the front name is marked as used.
MarkUsedFrontOnly(used_file_names, front_name, back_name) ==
    used_file_names \cup {front_name}

\* Lines 1236-1237: both names of a found pair are marked as used.
MarkUsed(used_file_names, front_name, back_name) ==
    used_file_names \cup {front_name, back_name}

\* Lines 1226-1238: a pair whose two names are in file_map.
PairFound(acc, file_items, card_multiples, front_name, back_name) ==
    LET front_multiple == Multiple(card_multiples, front_name)
        back_multiple == Multiple(card_multiples, back_name)
    IN  [front_cards |-> acc.front_cards
                           \o Copies(FileMapGet(file_items, front_name), front_multiple),
         back_cards |-> acc.back_cards
                           \o Copies(FileMapGet(file_items, back_name), back_multiple),
         used_file_names |-> MarkUsed(acc.used_file_names, front_name, back_name),
         log |-> Append(acc.log,
                        [msg |-> "Added double-sided pair",
                         front |-> front_name, front_multiple |-> front_multiple,
                         back |-> back_name, back_multiple |-> back_multiple])]

\* The names of a pair that are not in file_map, front first.
MissingNames(file_items, front_name, back_name) ==
    (IF InFileMap(file_items, front_name) THEN <<>> ELSE <<front_name>>)
        \o (IF InFileMap(file_items, back_name) THEN <<>> ELSE <<back_name>>)

\* Mutant: a pair with a missing file still marks its names as used.
PairMissingMarksUsed(acc, file_items, front_name, back_name) ==
    [acc EXCEPT
        !.used_file_names = @ \cup {front_name, back_name},
        !.log = Append(@, [msg |-> "Warning: Could not find files for double-sided pair",
                           missing |-> MissingNames(file_items, front_name, back_name)])]

\* Lines 1239-1245: a pair with a missing file: a warning, nothing else.
PairMissing(acc, file_items, front_name, back_name) ==
    [acc EXCEPT
        !.log = Append(@, [msg |-> "Warning: Could not find files for double-sided pair",
                           missing |-> MissingNames(file_items, front_name, back_name)])]

\* Lines 1221-1245: the loop over double_sided_pairs from position i on.
RECURSIVE PairsLoop(_, _, _, _, _)
PairsLoop(double_sided_pairs, i, file_items, card_multiples, acc) ==
    IF i > Len(double_sided_pairs) THEN acc
    ELSE
        LET front_name == double_sided_pairs[i][1]
            back_name == double_sided_pairs[i][2]
        IN  PairsLoop(double_sided_pairs, i + 1, file_items, card_multiples,
                IF InFileMap(file_items, front_name) /\ InFileMap(file_items, back_name)
                THEN PairFound(acc, file_items, card_multiples, front_name, back_name)
                ELSE PairMissing(acc, file_items, front_name, back_name))

\* Lines 1251-1255 and 1260-1264: the copies of one single-sided item.
AddSingleSided(acc, item, card_multiples) ==
    LET multiple == Multiple(card_multiples, item.name)
    IN  [acc EXCEPT
            !.front_cards = @ \o Copies(item, multiple),
            !.log = IF multiple > 1
                    THEN Append(@, [msg |-> "Added copies of",
                                    multiple |-> multiple, name |-> item.name])
                    ELSE @]

\* Lines 1248-1255: the loop over file_items for the names not used by a pair.
RECURSIVE RemainingLoop(_, _, _, _)
RemainingLoop(file_items, i, card_multiples, acc) ==
    IF i > Len(file_items) THEN acc
    ELSE RemainingLoop(file_items, i + 1, card_multiples,
             IF file_items[i].name \notin acc.used_file_names
             THEN AddSingleSided(acc, file_items[i], card_multiples)
             ELSE acc)

\* Lines 1258-1264: without pairs every item is a front card.
RECURSIVE AllFrontsLoop(_, _, _, _)
AllFrontsLoop(file_items, i, card_multiples, acc) ==
    IF i > Len(file_items) THEN acc
    ELSE AllFrontsLoop(file_items, i + 1, card_multiples,
             AddSingleSided(acc, file_items[i], card_multiples))

\* Lines 1211-1264: front_cards, back_cards and the lines printed on the way.
CollectCards(file_items, double_sided_pairs, card_multiples, log) ==
    LET acc0 == [front_cards |-> <<>>, back_cards |-> <<>>,
                 used_file_names |-> {}, log |-> log]
    IN  IF double_sided_pairs # <<>>
        THEN RemainingLoop(file_items, 1, card_multiples,
                 PairsLoop(double_sided_pairs, 1, file_items, card_multiples, acc0))
        ELSE AllFrontsLoop(file_items, 1, card_multiples, acc0)

\* Lines 1268-1269
FinalQuantity(quantity, card_count) ==
    IF quantity = None THEN card_count ELSE quantity[1]

\* Lines 1270-1272
FinalBracket(bracket, card_count) ==
    IF bracket = None THEN _find_next_bracket(card_count) ELSE bracket[1]

\* Line 1282: str(foil).lower()
FoilText(foil) == IF foil THEN "true" ELSE "false"

\* Line 1305
QueryName(name) ==
    lower(replace_remove(replace_remove(replace_remove(name, ".png"), ".jpg"), ".jpeg"))

\* Mutant: slots are numbered from 1.
FrontSlotOneBased(i) == i + 1

\* Line 1288, 1291: enumerate(front_cards) numbers from 0; i is 0-based.
FrontSlot(i) == i

\* Lines 1288-1292
FrontCardElements(front_cards) ==
    [k \in 1..Len(front_cards) |->
        [id |-> front_cards[k].id, slots |-> FrontSlot(k - 1),
         name |-> front_cards[k].name]]

\* Lines 1295-1306
BackCardElements(back_cards) ==
    [k \in 1..Len(back_cards) |->
        [id |-> back_cards[k].id, slots |-> k - 1,
         name |-> back_cards[k].name, query |-> QueryName(back_cards[k].name)]]

\* Lines 1199-1204: the line printed when a name was excluded.
ExcludedLog(files, file_items, exclude_names) ==
    LET excluded_count == Len(NonFolderItems(files)) - Len(file_items)
    IN  IF exclude_names # <<>> /\ excluded_count > 0
        THEN <<[msg |-> "Excluded file(s) based on filename", count |-> excluded_count]>>
        ELSE <<>>

\* The flat listings, pairing requests, multiplicities and exclude lists the
\* assembler is tried on.
FileCat == [name |-> "cat.png", id |-> "id_cat_0001", isFolder |-> FALSE, path |-> ""]
FileDog == [name |-> "dog.png", id |-> "id_dog_0001", isFolder |-> FALSE, path |-> ""]
FileBack == [name |-> "cat-back.png", id |-> "id_back_0001", isFolder |-> FALSE, path |-> ""]
FileCatSub == [name |-> "cat.png", id |-> "id_cat_0002", isFolder |-> FALSE, path |-> "Sub"]
FolderSub == [name |-> "Sub", id |-> "id_sub_0001", isFolder |-> TRUE, path |-> ""]
AsmEntries == {FileCat, FileDog, FileBack, FileCatSub, FolderSub}
AsmPairs == {<<"cat.png", "cat-back.png">>, <<"cat.png", "missing.png">>,
             <<"dog.png", "cat-back.png">>, <<"missing.png", "dog.png">>}
AsmMultiples == {<<>>, "dog.png" :> 2, ("cat.png" :> 2) @@ ("cat-back.png" :> 3)}
AsmExcludes == {<<>>, <<"DOG.PNG">>, <<"cat-back.png">>}
AsmQuantityBracket == {<<None, None>>, <<Some(20), None>>, <<None, Some(55)>>}
DefaultStock == "(S30) Standard Smooth"
DefaultCardback == "12RJeMQw2E0jEz4SwKJTItoONCeHD7skj"

InitAssembler ==
    /\ IdleExceptAssembler
    /\ a_files \in DistinctSeqsUpTo(AsmEntries, MaxFiles)
    /\ \E qb \in AsmQuantityBracket : a_quantity = qb[1] /\ a_bracket = qb[2]
    /\ a_stock = DefaultStock
    /\ a_foil = FALSE
    /\ a_pairs \in DistinctSeqsUpTo(AsmPairs, MaxPairs)
    /\ a_cardback = DefaultCardback
    /\ a_multiples \in AsmMultiples
    /\ a_exclude \in AsmExcludes
    /\ a_pc = "start"
    /\ a_doc = NoDocument
    /\ a_log = <<>>
    /\ a_exit = None

\* main, lines 1619-1643: process_drive_link returns, the finally clause runs
\* and main returns; sys.exit is not called, the interpreter exits with 0.
MainExitStatus == 0

\* generate_mpcfill_xml, lines 1206-1208: no file item is left, nothing is
\* written; the function returns to process_drive_link (line 1417), which
\* returns to main.
GenerateNoFiles ==
    /\ a_pc = "start"
    /\ \E file_items \in {FileItems(a_files, a_exclude)} :
        /\ file_items = <<>>
        /\ a_log' = ExcludedLog(a_files, file_items, a_exclude)
                        \o <<[msg |-> "No files found to generate XML"]>>
    /\ a_pc' = "no_files"
    /\ a_exit' = Some(MainExitStatus)
    /\ UNCHANGED <<asmArgs, a_doc, exceptAssembler>>

\* generate_mpcfill_xml, lines 1210-1333: the order element is built and written.
GenerateMpcfillXml ==
    /\ a_pc = "start"
    /\ \E file_items \in {FileItems(a_files, a_exclude)} :
        /\ file_items # <<>>
        /\ \E cards \in {CollectCards(file_items, a_pairs, a_multiples,
                                      ExcludedLog(a_files, file_items, a_exclude))} :
            \E card_count \in {Len(cards.front_cards)} :
                /\ a_doc' = [quantity |-> FinalQuantity(a_quantity, card_count),
                             bracket |-> FinalBracket(a_bracket, card_count),
                             stock |-> a_stock,
                             foil |-> FoilText(a_foil),
                             fronts |-> FrontCardElements(cards.front_cards),
                             backs |-> BackCardElements(cards.back_cards),
                             cardback |-> a_cardback]
                /\ a_log' = Append(cards.log,
                                   [msg |-> "MPCFill XML generated successfully!"])
    /\ a_pc' = "written"
    /\ a_exit' = Some(MainExitStatus)
    /\ UNCHANGED <<asmArgs, exceptAssembler>>

NextAssembler ==
    \/ GenerateNoFiles
    \/ GenerateMpcfillXml

SpecAssembler == InitAssembler /\ [][NextAssembler]_vars

(***************************************************************************)
(* Order Merger: combine-mpc-fill-files.py, parse_xml_file and             *)
(* combine_xml_files.  What a path holds is a record: status "ok" (an order *)
(* document), "missing" (no such file, in outputs/ neither) or "unparsable" *)
(* (parse_xml_file raises); an element that is absent or has no text is     *)
(* None.  The slots text of a card is kept as a number.                     *)
(***************************************************************************)
\* parse_xml_file, lines 46-59: details_dict; {} when there is no details element.
ParseDetails(doc) ==
    IF doc.details = None
    THEN [present |-> FALSE, quantity |-> None, bracket |-> None,
          stock |-> "", foil |-> FALSE]
    ELSE LET d == doc.details[1]
         IN  [present |-> TRUE,
              quantity |-> d.quantity,
              bracket |-> d.bracket,
              stock |-> IF d.stock = None THEN "(S30) Standard Smooth" ELSE d.stock[1],
              foil |-> IF d.foil # None /\ d.foil[1] # ""
                       THEN lower(d.foil[1]) = "true" ELSE FALSE]

\* parse_xml_file, lines 87-88
ParseCardback(doc) ==
    IF doc.cardback # None /\ doc.cardback[1] # ""
    THEN doc.cardback[1]
    ELSE "12RJeMQw2E0jEz4SwKJTItoONCeHD7skj"

\* combine_xml_files, lines 123-152: the loop over input_files from position i on.
RECURSIVE ParseLoop(_, _, _)
ParseLoop(input_files, i, acc) ==
    IF i > Len(input_files) THEN acc
    ELSE
        LET doc == input_files[i]
        IN  ParseLoop(input_files, i + 1,
                IF doc.status = "missing"
                THEN [acc EXCEPT !.log = Append(@, [msg |-> "Warning: File not found",
                                                    file |-> i])]
                ELSE IF doc.status = "unparsable"
                THEN [acc EXCEPT !.log = Append(@, [msg |-> "Error parsing", file |-> i])]
                ELSE [all_details |-> Append(acc.all_details, ParseDetails(doc)),
                      all_front_cards |-> acc.all_front_cards \o doc.fronts,
                      all_back_cards |-> acc.all_back_cards \o doc.backs,
                      cardback_ids |-> Append(acc.cardback_ids, ParseCardback(doc)),
                      log |-> acc.log])

\* The loop stopping after the first input file.
ParseFirstOnly(input_files) ==
    ParseLoop(SubSeq(input_files, 1, 1), 1,
              [all_details |-> <<>>, all_front_cards |-> <<>>, all_back_cards |-> <<>>,
               cardback_ids |-> <<>>, log |-> <<>>])

ParseAll(input_files) ==
    ParseLoop(input_files, 1,
              [all_details |-> <<>>, all_front_cards |-> <<>>, all_back_cards |-> <<>>,
               cardback_ids |-> <<>>, log |-> <<>>])

\* max() of two numbers
Max2(a, b) == IF a >= b THEN a ELSE b

\* The quantity taken from the fronts alone.
CombinedQuantityFrontsOnly(total_front_cards, total_back_cards) == total_front_cards

\* Lines 166-170
CombinedQuantity(total_front_cards, total_back_cards) ==
    IF total_back_cards > 0
    THEN Max2(total_front_cards, total_back_cards)
    ELSE total_front_cards

\* Line 177: the brackets the documents declare (None and 0 are dropped).
DeclaredBrackets(all_details) ==
    {all_details[k].bracket[1] :
        k \in {j \in 1..Len(all_details) :
                  /\ all_details[j].present
                  /\ all_details[j].bracket # None
                  /\ all_details[j].bracket[1] # 0}}

\* The bracket looked up from the quantity in either mode.
CombinedBracketAlwaysAuto(auto_bracket, all_details, quantity) ==
    find_next_bracket(quantity)

\* Lines 173-178
CombinedBracket(auto_bracket, all_details, quantity) ==
    IF auto_bracket
    THEN find_next_bracket(quantity)
    ELSE IF DeclaredBrackets(all_details) # {}
         THEN SetMax(DeclaredBrackets(all_details))
         ELSE find_next_bracket(quantity)

\* Lines 163, 181
FinalStock(stock, all_details) ==
    IF stock # None THEN stock[1]
    ELSE IF all_details # <<>> /\ all_details[1].present /\ all_details[1].stock # ""
         THEN all_details[1].stock
         ELSE "(S30) Standard Smooth"

\* The foil of the first document whatever the override.
FinalFoilOfDocument(foil, all_details) ==
    IF all_details # <<>> /\ all_details[1].present
    THEN all_details[1].foil
    ELSE FALSE

\* Lines 163, 184-187
FinalFoil(foil, all_details) ==
    IF foil # None THEN foil[1]
    ELSE IF all_details # <<>> /\ all_details[1].present
         THEN all_details[1].foil
         ELSE FALSE

\* Line 190
FinalCardback(cardback, cardback_ids) ==
    IF cardback # None THEN cardback[1]
    ELSE IF cardback_ids # <<>> THEN cardback_ids[1]
         ELSE "12RJeMQw2E0jEz4SwKJTItoONCeHD7skj"

\* The front cards written last to first.
MergedFrontElementsReversed(all_front_cards) ==
    [k \in 1..Len(all_front_cards) |->
        [id |-> all_front_cards[Len(all_front_cards) + 1 - k].id, slots |-> k - 1,
         name |-> all_front_cards[Len(all_front_cards) + 1 - k].name]]

\* Lines 204-208: enumerate(all_front_cards) numbers from 0.
MergedFrontElements(all_front_cards) ==
    [k \in 1..Len(all_front_cards) |->
        [id |-> all_front_cards[k].id, slots |-> k - 1,
         name |-> all_front_cards[k].name]]

\* Lines 211-219: a query element only when the card has a query.
MergedBackElements(all_back_cards) ==
    [k \in 1..Len(all_back_cards) |->
        IF all_back_cards[k].query # ""
        THEN [id |-> all_back_cards[k].id, slots |-> k - 1,
              name |-> all_back_cards[k].name, query |-> all_back_cards[k].query]
        ELSE [id |-> all_back_cards[k].id, slots |-> k - 1,
              name |-> all_back_cards[k].name]]

\* The input documents the merger is tried on.
Card(id, slots, name) == [id |-> id, slots |-> slots, name |-> name]
BackCard(id, slots, name, query) ==
    [id |-> id, slots |-> slots, name |-> name, query |-> query]
Details(quantity, bracket, stock, foil) ==
    [quantity |-> quantity, bracket |-> bracket, stock |-> stock, foil |-> foil]

DocA ==
    [status |-> "ok",
     details |-> Some(Details(Some(2), Some(18), Some("(S33) Superior Smooth"), Some("true"))),
     fronts |-> <<Card("id_a_front_1", 0, "a1.png"), Card("id_a_front_2", 1, "a2.png")>>,
     backs |-> <<>>,
     cardback |-> Some("id_cardback_A")]
DocB ==
    [status |-> "ok",
     details |-> Some(Details(Some(1), Some(36), Some(""), Some("false"))),
     fronts |-> <<Card("id_b_front_1", 5, "b1.png")>>,
     backs |-> <<BackCard("id_b_back_1", 7, "b1-back.png", "b1-back")>>,
     cardback |-> Some("")]
DocNoDetails ==
    [status |-> "ok",
     details |-> None,
     fronts |-> <<Card("id_c_front_1", 0, "c1.png")>>,
     backs |-> <<BackCard("id_c_back_1", 0, "c1-back.png", "c1-back"),
                 BackCard("id_c_back_2", 1, "c2-back.png", "")>>,
     cardback |-> None]
DocNoCards ==
    [status |-> "ok",
     details |-> Some(Details(Some(0), None, None, None)),
     fronts |-> <<>>, backs |-> <<>>,
     cardback |-> Some("id_cardback_E")]
DocTwenty ==
    [status |-> "ok",
     details |-> Some(Details(Some(20), Some(36), Some("(S30) Standard Smooth"), Some("false"))),
     fronts |-> [k \in 1..20 |-> Card("id_t_front", k - 1, "t.png")],
     backs |-> <<>>,
     cardback |-> Some("id_cardback_T")]
DocTenTen ==
    [status |-> "ok",
     details |-> Some(Details(Some(10), Some(18), Some("(S30) Standard Smooth"), Some("TRUE"))),
     fronts |-> [k \in 1..10 |-> Card("id_u_front", k - 1, "u.png")],
     backs |-> [k \in 1..10 |-> BackCard("id_u_back", k - 1, "u-back.png", "u-back")],
     cardback |-> Some("id_cardback_U")]
DocMissing ==
    [status |-> "missing", details |-> None, fronts |-> <<>>, backs |-> <<>>,
     cardback |-> None]
DocUnparsable ==
    [status |-> "unparsable", details |-> None, fronts |-> <<>>, backs |-> <<>>,
     cardback |-> None]
MergerDocs ==
    {DocA, DocB, DocNoDetails, DocNoCards, DocTwenty, DocTenTen, DocMissing, DocUnparsable}

InitMerger ==
    /\ IdleExceptMerger
    /\ m_input_files \in SeqsUpTo(MergerDocs, MaxDocs)
    /\ m_stock \in {None, Some("(S27) Smooth")}
    /\ m_foil \in {None, Some(TRUE), Some(FALSE)}
    /\ m_cardback \in {None, Some("id_cardback_override")}
    /\ m_auto_bracket \in BOOLEAN
    /\ m_pc = "start"
    /\ m_doc = NoDocument
    /\ m_log = <<>>

\* combine_xml_files, lines 111-113: no input file is given.
CombineNoInput ==
    /\ m_pc = "start"
    /\ m_input_files = <<>>
    /\ m_pc' = "exit1"
    /\ m_log' = <<[msg |-> "Error: No input files specified"]>>
    /\ UNCHANGED <<mrgArgs, m_doc, exceptMerger>>

\* combine_xml_files, lines 115-156: the files read hold no card at all.
CombineNoCards ==
    /\ m_pc = "start"
    /\ m_input_files # <<>>
    /\ \E parsed \in {ParseAll(m_input_files)} :
        /\ parsed.all_front_cards = <<>>
        /\ parsed.all_back_cards = <<>>
        /\ m_log' = Append(parsed.log, [msg |-> "Error: No cards found in any input files"])
    /\ m_pc' = "exit1"
    /\ UNCHANGED <<mrgArgs, m_doc, exceptMerger>>

\* combine_xml_files, lines 115-249: the combined order element is written.
CombineXmlFiles ==
    /\ m_pc = "start"
    /\ m_input_files # <<>>
    /\ \E parsed \in {ParseAll(m_input_files)} :
        /\ ~(parsed.all_front_cards = <<>> /\ parsed.all_back_cards = <<>>)
        /\ \E quantity \in {CombinedQuantity(Len(parsed.all_front_cards),
                                             Len(parsed.all_back_cards))} :
            m_doc' = [quantity |-> quantity,
                      bracket |-> CombinedBracket(m_auto_bracket, parsed.all_details,
                                                  quantity),
                      stock |-> FinalStock(m_stock, parsed.all_details),
                      foil |-> FoilText(FinalFoil(m_foil, parsed.all_details)),
                      fronts |-> MergedFrontElements(parsed.all_front_cards),
                      backs |-> MergedBackElements(parsed.all_back_cards),
                      cardback |-> FinalCardback(m_cardback, parsed.cardback_ids)]
        /\ m_log' = Append(parsed.log, [msg |-> "Combined XML file created successfully!"])
    /\ m_pc' = "written"
    /\ UNCHANGED <<mrgArgs, exceptMerger>>

NextMerger ==
    \/ CombineNoInput
    \/ CombineNoCards
    \/ CombineXmlFiles

SpecMerger == InitMerger /\ [][NextMerger]_vars

\* Either tool is run.
InitOrder == InitAssembler \/ InitMerger

NextOrder ==
    \/ NextAssembler
    \/ NextMerger

SpecOrder == InitOrder /\ [][NextOrder]_vars

(***************************************************************************)
(* Traversal Engine: GoogleDriveLister.get_folder_contents_via_scraping.   *)
(* The markup of a folder is what each of the five extractors yields from  *)
(* it.  An activation of the function is a record on t_stack; pc "enter"   *)
(* is the entry of the function, pc "loop" the loop over folders;          *)
(* extracted is the list files as it stands at line 722, before the        *)
(* deduplicator replaces it.                                               *)
(***************************************************************************)
\* Line 661
MaxDepthReachedAbove(current_depth, max_depth) == current_depth > max_depth

MaxDepthReached(current_depth, max_depth) == current_depth >= max_depth

\* Every extractor runs and the outputs are joined.
SelectStrategyCombined(markup) ==
    markup.extract_data \o markup.script_tags \o markup.data_attributes
        \o markup.html \o markup.meta_tags

\* Lines 685-719: each extractor runs only while files is still empty.
SelectStrategy(markup) ==
    IF markup.extract_data # <<>> THEN markup.extract_data
    ELSE IF markup.script_tags # <<>> THEN markup.script_tags
    ELSE IF markup.data_attributes # <<>> THEN markup.data_attributes
    ELSE IF markup.html # <<>> THEN markup.html
    ELSE markup.meta_tags

\* Lines 728-729: file_item['path'] = current_path
TagPath(files, current_path) ==
    [k \in 1..Len(files) |->
        [name |-> files[k].name, id |-> files[k].id,
         isFolder |-> files[k].isFolder, path |-> current_path]]

\* The deduplicator leaving every entry in.
KeepAllFiles(files) == files

\* Line 723
UniqueFiles(files) == _remove_duplicates(files)

\* Lines 684-729: the entries of one folder.
StepFiles(markup, current_path) ==
    TagPath(UniqueFiles(SelectStrategy(markup)), current_path)

\* Recursion whatever the recursive flag.
RecursionAlways(recursive, current_depth, max_depth) == current_depth < max_depth

\* Line 732
RecursionEnabled(recursive, current_depth, max_depth) ==
    recursive /\ current_depth < max_depth

\* Line 733
SubFolders(files) == SelectSeq(files, LAMBDA item : item.isFolder)

\* Lines 732-737: the folders the loop runs over.
FoldersToProcess(files, recursive, current_depth, max_depth) ==
    IF RecursionEnabled(recursive, current_depth, max_depth)
    THEN SubFolders(files)
    ELSE <<>>

\* The names compared as they are written.
IsExcludedFolderExact(folder_name, exclude_folders) ==
    \E k \in 1..Len(exclude_folders) : folder_name = exclude_folders[k]

\* Line 742
IsExcludedFolder(folder_name, exclude_folders) ==
    \E k \in 1..Len(exclude_folders) : lower(folder_name) = lower(exclude_folders[k])

\* Line 747
IsValidFolderId(folder_id) == folder_id # "" /\ Len(folder_id) > 10

\* The new path is the folder's name alone.
NewPathNameOnly(current_path, folder_name) == folder_name

\* Line 749
NewPath(current_path, folder_name) ==
    IF current_path # "" THEN current_path \o "/" \o folder_name ELSE folder_name

\* Line 656: an activation at its entry.
Activation(folder_id, current_depth, current_path, exclude_folders) ==
    [folder_id |-> folder_id, current_depth |-> current_depth,
     current_path |-> current_path, exclude_folders |-> exclude_folders,
     pc |-> "enter",
     extracted |-> <<>>, files |-> <<>>, folders |-> <<>>, idx |-> 1]

CallRecord(folder_id, current_depth, current_path, exclude_folders) ==
    [folder_id |-> folder_id, current_depth |-> current_depth,
     current_path |-> current_path, exclude_folders |-> exclude_folders]

\* The activation that is running.
Top == t_stack[Len(t_stack)]

\* The function returns and its caller leaves the loop over the folders.
ReturnToCallerEndingLoop(value) ==
    IF Len(t_stack) = 1
    THEN /\ t_stack' = <<>>
         /\ t_result' = value
         /\ t_pc' = "done"
    ELSE /\ t_stack' =
                [k \in 1..(Len(t_stack) - 1) |->
                    IF k = Len(t_stack) - 1
                    THEN [t_stack[k] EXCEPT !.files = @ \o value,
                                            !.idx = Len(t_stack[k].folders) + 1]
                    ELSE t_stack[k]]
         /\ UNCHANGED <<t_result, t_pc>>

\* The function returns and its caller calls it again for the same folder.
ReturnToCallerRetrying(value) ==
    IF Len(t_stack) = 1
    THEN /\ t_stack' = <<>>
         /\ t_result' = value
         /\ t_pc' = "done"
    ELSE /\ t_stack' =
                [k \in 1..(Len(t_stack) - 1) |->
                    IF k = Len(t_stack) - 1
                    THEN [t_stack[k] EXCEPT !.files = @ \o value,
                                            !.idx = IF value = <<>> THEN @ ELSE @ + 1]
                    ELSE t_stack[k]]
         /\ UNCHANGED <<t_result, t_pc>>

\* The function returns value: to line 766 of its caller (files.extend, then
\* the next folder of the loop), or to the caller of the root call.
ReturnToCaller(value) ==
    IF Len(t_stack) = 1
    THEN /\ t_stack' = <<>>
         /\ t_result' = value
         /\ t_pc' = "done"
    ELSE /\ t_stack' =
                [k \in 1..(Len(t_stack) - 1) |->
                    IF k = Len(t_stack) - 1
                    THEN [t_stack[k] EXCEPT !.files = @ \o value, !.idx = @ + 1]
                    ELSE t_stack[k]]
         /\ UNCHANGED <<t_result, t_pc>>

\* The folder worlds the traversal is tried on.
TFile(id, name) == [name |-> name, id |-> id, isFolder |-> FALSE]
TFolder(id, name) == [name |-> name, id |-> id, isFolder |-> TRUE]
Markup(extract_data, script_tags, data_attributes, html, meta_tags) ==
    [extract_data |-> extract_data, script_tags |-> script_tags,
     data_attributes |-> data_attributes, html |-> html, meta_tags |-> meta_tags]
EmptyMarkup == Markup(<<>>, <<>>, <<>>, <<>>, <<>>)

MarkupOf(world, folder_id) ==
    IF folder_id \in DOMAIN world.pages THEN world.pages[folder_id] ELSE EmptyMarkup

\* A folder whose markup lists the folder's own id as its child.
WorldSelf ==
    [root |-> "id_self_0001",
     pages |-> "id_self_0001" :>
         Markup(<<TFolder("id_self_0001", "loop"), TFile("id_cat_00001", "cat.png")>>,
                <<>>, <<>>, <<>>, <<>>)]

\* A tree: at the root two files of one name and two of one id, folders
\* Set A (holding Deep, which lists Set A again), set b, and a folder with an
\* id of 10 characters; cat.png is in the root and in Set A, one dog.png id
\* is in Deep and in set b.
WorldTree ==
    [root |-> "id_root_0001",
     pages |->
        ("id_root_0001" :>
            Markup(<<TFile("id_cat_00001", " cat.png "),
                     TFolder("id_seta_0001", "Set A"),
                     TFile("id_cat_00002", "cat.png"),
                     TFile("id_cat_00001", "cat copy.png"),
                     TFolder("id_setb_0001", "set b"),
                     TFolder("id_ten_010", "tiny")>>,
                   <<TFile("id_never_001", "never.png")>>, <<>>, <<>>, <<>>))
        @@ ("id_seta_0001" :>
            Markup(<<>>,
                   <<TFile("id_cat_00003", "cat.png"),
                     TFolder("id_deep_0001", "Deep")>>, <<>>, <<>>, <<>>))
        @@ ("id_deep_0001" :>
            Markup(<<>>, <<>>,
                   <<TFile("id_dog_00001", "dog.png"),
                     TFolder("id_seta_0001", "Set A")>>,
                   <<>>, <<TFile("", "Deep cards")>>))
        @@ ("id_setb_0001" :>
            Markup(<<>>, <<>>, <<>>, <<TFile("id_dog_00001", "dog.png")>>, <<>>))]

\* The first extractor yields only an unusable entry, the second a file.
WorldFallback ==
    [root |-> "id_root_0001",
     pages |-> "id_root_0001" :>
         Markup(<<TFile("id_one_00001", "a")>>, <<TFile("id_cat_00001", "cat.png")>>,
                <<>>, <<>>, <<>>)]

\* Only the last extractor yields anything.
WorldMeta ==
    [root |-> "id_root_0001",
     pages |-> "id_root_0001" :>
         Markup(<<>>, <<>>, <<>>, <<>>, <<TFile("", "Shared cards")>>)]

Worlds == {WorldSelf, WorldTree, WorldFallback, WorldMeta}
TraversalExcludes == {<<>>, <<"SET B">>, <<"temp", "DEEP">>}

InitTraversal ==
    /\ IdleExceptTraversal
    /\ t_world \in Worlds
    /\ t_recursive \in BOOLEAN
    /\ t_max_depth \in 0..MaxDepth
    /\ t_exclude \in TraversalExcludes
    /\ t_pc = "start"
    /\ t_stack = <<>>
    /\ t_calls = <<>>
    /\ t_fetches = <<>>
    /\ t_result = <<>>

\* process_drive_link, line 1356: the root call, current_depth 0, path "".
StartTraversal ==
    /\ t_pc = "start"
    /\ t_pc' = "running"
    /\ t_stack' = <<Activation(t_world.root, 0, "", t_exclude)>>
    /\ t_calls' = <<CallRecord(t_world.root, 0, "", t_exclude)>>
    /\ UNCHANGED <<trvArgs, t_fetches, t_result, exceptTraversal>>

\* Lines 661-664: the depth bound is reached; [] is returned with no fetch.
ReturnAtMaxDepth ==
    /\ t_pc = "running"
    /\ Top.pc = "enter"
    /\ MaxDepthReached(Top.current_depth, t_max_depth)
    /\ ReturnToCaller(<<>>)
    /\ UNCHANGED <<trvArgs, t_calls, t_fetches, exceptTraversal>>

\* Lines 666-682, 778-780: session.get raises a RequestException; [] is
\* returned.
FetchFails ==
    /\ t_pc = "running"
    /\ Top.pc = "enter"
    /\ ~MaxDepthReached(Top.current_depth, t_max_depth)
    /\ t_fetches' = Append(t_fetches, [folder_id |-> Top.folder_id,
                                       current_depth |-> Top.current_depth,
                                       current_path |-> Top.current_path,
                                       ok |-> FALSE])
    /\ ReturnToCaller(<<>>)
    /\ UNCHANGED <<trvArgs, t_calls, exceptTraversal>>

\* Lines 666-737: the markup is fetched, the first extractor that yields
\* anything is taken, its entries are validated, deduplicated and tagged with
\* the path, and the loop over the folders is entered.
FetchAndExtract ==
    /\ t_pc = "running"
    /\ Top.pc = "enter"
    /\ ~MaxDepthReached(Top.current_depth, t_max_depth)
    /\ t_fetches' = Append(t_fetches, [folder_id |-> Top.folder_id,
                                       current_depth |-> Top.current_depth,
                                       current_path |-> Top.current_path,
                                       ok |-> TRUE])
    /\ \E extracted \in {SelectStrategy(MarkupOf(t_world, Top.folder_id))} :
      \E files \in {TagPath(UniqueFiles(extracted), Top.current_path)} :
        t_stack' = [t_stack EXCEPT ![Len(t_stack)] =
                        [@ EXCEPT !.pc = "loop",
                                  !.extracted = extracted,
                                  !.files = files,
                                  !.folders = FoldersToProcess(files, t_recursive,
                                                  Top.current_depth, t_max_depth),
                                  !.idx = 1]]
    /\ UNCHANGED <<trvArgs, t_pc, t_calls, t_result, exceptTraversal>>

\* Lines 737-745: the folder's name is in exclude_folders; continue.
SkipExcludedFolder ==
    /\ t_pc = "running"
    /\ Top.pc = "loop"
    /\ Top.idx <= Len(Top.folders)
    /\ IsExcludedFolder(Top.folders[Top.idx].name, Top.exclude_folders)
    /\ t_stack' = [t_stack EXCEPT ![Len(t_stack)].idx = @ + 1]
    /\ UNCHANGED <<trvArgs, t_pc, t_calls, t_fetches, t_result, exceptTraversal>>

\* Lines 737-747: the folder's id is empty or has at most 10 characters; the
\* loop goes on to the next folder.
SkipInvalidFolderId ==
    /\ t_pc = "running"
    /\ Top.pc = "loop"
    /\ Top.idx <= Len(Top.folders)
    /\ ~IsExcludedFolder(Top.folders[Top.idx].name, Top.exclude_folders)
    /\ ~IsValidFolderId(Top.folders[Top.idx].id)
    /\ t_stack' = [t_stack EXCEPT ![Len(t_stack)].idx = @ + 1]
    /\ UNCHANGED <<trvArgs, t_pc, t_calls, t_fetches, t_result, exceptTraversal>>

\* Lines 737-763: the recursive call for the folder, one level deeper.
RecurseIntoFolder ==
    /\ t_pc = "running"
    /\ Top.pc = "loop"
    /\ Top.idx <= Len(Top.folders)
    /\ ~IsExcludedFolder(Top.folders[Top.idx].name, Top.exclude_folders)
    /\ IsValidFolderId(Top.folders[Top.idx].id)
    /\ \E folder \in {Top.folders[Top.idx]} :
       \E new_path \in {NewPath(Top.current_path, folder.name)} :
        /\ t_stack' = Append(t_stack,
                             Activation(folder.id, Top.current_depth + 1, new_path,
                                        Top.exclude_folders))
        /\ t_calls' = Append(t_calls,
                             CallRecord(folder.id, Top.current_depth + 1, new_path,
                                        Top.exclude_folders))
    /\ UNCHANGED <<trvArgs, t_pc, t_fetches, t_result, exceptTraversal>>

\* Line 776: the loop is over (or was not entered); files is returned.
ReturnFiles ==
    /\ t_pc = "running"
    /\ Top.pc = "loop"
    /\ Top.idx > Len(Top.folders)
    /\ ReturnToCaller(Top.files)
    /\ UNCHANGED <<trvArgs, t_calls, t_fetches, exceptTraversal>>

NextTraversal ==
    \/ StartTraversal
    \/ ReturnAtMaxDepth
    \/ FetchFails
    \/ FetchAndExtract
    \/ SkipExcludedFolder
    \/ SkipInvalidFolderId
    \/ RecurseIntoFolder
    \/ ReturnFiles

SpecTraversal == InitTraversal /\ [][NextTraversal]_vars

\* The interpreter keeps running: a step that can be taken is taken.
SpecTraversalFair == SpecTraversal /\ WF_vars(NextTraversal)

(***************************************************************************)
(* Entry Classifier: GoogleDriveLister._is_folder.  An item is a record of *)
(* the keys the function reads; a key the item lacks holds the default of  *)
(* its item.get; class is a list in every caller.                          *)
(***************************************************************************)
\* str.endswith
endswith(s, suffix) ==
    Len(s) >= Len(suffix) /\ SubSeq(s, Len(s) - Len(suffix) + 1, Len(s)) = suffix

\* Line 146
KnownFileExtensions ==
    {".pdf", ".png", ".jpg", ".jpeg", ".doc", ".docx", ".txt", ".zip", ".rar",
     ".mp4", ".mp3", ".avi", ".mov", ".gif", ".bmp", ".tiff", ".svg", ".xlsx",
     ".pptx", ".csv", ".json", ".xml", ".html", ".css", ".js", ".py", ".java",
     ".cpp", ".c", ".h"}

\* Lines 104-106
HasFolderMime(item) == lower(item.mimeType) = "application/vnd.google-apps.folder"

\* Lines 109-110
HasFolderFlag(item) == item.isFolder

\* Lines 113-114
HasFolderTarget(item) == item.data_target = "folder"

\* Lines 117-121
HasFolderClass(item) ==
    \E k \in 1..Len(item.class) : contains(lower(item.class[k]), "folder")

\* Lines 124-126
HasFolderHref(item) == contains(item.href, "/folders/")

\* Lines 129-131
LabelSaysSharedFolder(item) == contains(lower(item.aria_label), "shared folder")

\* Line 132
LabelSaysImage(item) ==
    /\ contains(lower(item.aria_label), "image")
    /\ contains(lower(item.aria_label), "more info")

\* The image-preview signal left out of the cascade.
ImagePreviewIgnored(item) == FALSE

\* Lines 137-138
HasImagePreview(item) == item.has_image_preview

\* Line 142
LooksLikeDocument(item) ==
    \/ lower(item.mimeType) = "application/vnd.google-apps.document"
    \/ item.data_target = "doc"

\* Lines 144-146
HasKnownExtension(item) ==
    \E ext \in KnownFileExtensions : endswith(lower(item.name), ext)

\* The cascade with the image-preview signal tested before the folder signals.
IsFolderPreviewFirst(item) ==
    IF HasImagePreview(item) THEN FALSE
    ELSE IF HasFolderMime(item) THEN TRUE
    ELSE IF HasFolderFlag(item) THEN TRUE
    ELSE IF HasFolderTarget(item) THEN TRUE
    ELSE IF HasFolderClass(item) THEN TRUE
    ELSE IF HasFolderHref(item) THEN TRUE
    ELSE IF LabelSaysSharedFolder(item) THEN TRUE
    ELSE IF LabelSaysImage(item) THEN FALSE
    ELSE IF LooksLikeDocument(item) THEN ~HasKnownExtension(item)
    ELSE FALSE

\* Lines 101-152
_is_folder(item) ==
    IF HasFolderMime(item) THEN TRUE
    ELSE IF HasFolderFlag(item) THEN TRUE
    ELSE IF HasFolderTarget(item) THEN TRUE
    ELSE IF HasFolderClass(item) THEN TRUE
    ELSE IF HasFolderHref(item) THEN TRUE
    ELSE IF LabelSaysSharedFolder(item) THEN TRUE
    ELSE IF LabelSaysImage(item) THEN FALSE
    ELSE IF HasImagePreview(item) THEN FALSE
    ELSE IF LooksLikeDocument(item) THEN ~HasKnownExtension(item)
    ELSE FALSE

\* The items the classifier is tried on.
ItemMimeTypes ==
    {"unknown", "application/vnd.google-apps.folder",
     "Application/Vnd.Google-Apps.Folder", "application/vnd.google-apps.document"}
ItemTargets == {"", "folder", "doc"}
ItemClasses == {<<>>, <<"item">>, <<"item", "Folder-icon">>}
ItemHrefs == {"", "/drive/folders/abc", "/file/d/abc"}
ItemLabels ==
    {"", "Cards Shared folder", "cat.png Image More info", "Image",
     "Shared folder Image More info"}
ItemNames == {"cards", "cat.png", "Deck.PNG"}
Items ==
    [mimeType : ItemMimeTypes, isFolder : BOOLEAN, data_target : ItemTargets,
     class : ItemClasses, href : ItemHrefs, aria_label : ItemLabels,
     has_image_preview : BOOLEAN, name : ItemNames]

InitClassifier ==
    /\ IdleExceptClassifier
    /\ c_item \in Items
    /\ c_pc = "start"
    /\ c_is_folder = FALSE

\* _is_folder is called on the drawn item.
IsFolderCall ==
    /\ c_pc = "start"
    /\ c_is_folder' = _is_folder(c_item)
    /\ c_pc' = "done"
    /\ UNCHANGED <<c_item, exceptClassifier>>

NextClassifier == IsFolderCall

SpecClassifier == InitClassifier /\ [][NextClassifier]_vars

(***************************************************************************)
(* Claims about the Order Assembler.                                       *)
(***************************************************************************)
\* The (id, name) of every card of a list of card elements or entries.
CardFaces(cards) == [k \in 1..Len(cards) |-> <<cards[k].id, cards[k].name>>]

\* The concatenation of a sequence of sequences.
RECURSIVE ConcatAll(_)
ConcatAll(ss) == IF ss = <<>> THEN <<>> ELSE Head(ss) \o ConcatAll(Tail(ss))

\* What the statement of the assembly reads.  entries are the file entries
\* (folders and excluded names dropped), found the requests whose two names
\* are among them.
NamesOf(entries) == {entries[k].name : k \in 1..Len(entries)}
Multiplicity(name) == IF name \in DOMAIN a_multiples THEN a_multiples[name] ELSE 1
FoundRequests(entries) ==
    LET names == NamesOf(entries)
    IN  SelectSeq(a_pairs, LAMBDA p : p[1] \in names /\ p[2] \in names)
FailedRequests(entries) ==
    LET names == NamesOf(entries)
    IN  SelectSeq(a_pairs, LAMBDA p : ~(p[1] \in names /\ p[2] \in names))
ConsumedNames(found) ==
    {found[k][1] : k \in 1..Len(found)} \cup {found[k][2] : k \in 1..Len(found)}
\* The entry a name stands for: the one the name-to-entry map holds, which
\* for a name listed twice is the later entry.
EntryNamed(entries, name) == FileMapGet(entries, name)

ExpectedFronts(entries, found) ==
    ConcatAll([k \in 1..Len(found) |->
                  Copies(EntryNamed(entries, found[k][1]), Multiplicity(found[k][1]))])
    \o ConcatAll([k \in 1..Len(entries) |->
                  IF entries[k].name \in ConsumedNames(found)
                  THEN <<>>
                  ELSE Copies(entries[k], Multiplicity(entries[k].name))])

ExpectedBacks(entries, found) ==
    ConcatAll([k \in 1..Len(found) |->
                  Copies(EntryNamed(entries, found[k][2]), Multiplicity(found[k][2]))])

\* The end-to-end scenario of the specification.
ScenarioGiven ==
    /\ a_files = <<FileCat, FileDog, FileBack>>
    /\ a_pairs = << <<"cat.png", "cat-back.png">> >>
    /\ DOMAIN a_multiples = {"dog.png"}
    /\ a_multiples["dog.png"] = 2
    /\ a_exclude = <<>>
    /\ a_quantity = None
    /\ a_bracket = None

ScenarioResult ==
    /\ a_doc.fronts = << [id |-> "id_cat_0001", slots |-> 0, name |-> "cat.png"],
                         [id |-> "id_dog_0001", slots |-> 1, name |-> "dog.png"],
                         [id |-> "id_dog_0001", slots |-> 2, name |-> "dog.png"] >>
    /\ a_doc.backs = << [id |-> "id_back_0001", slots |-> 0, name |-> "cat-back.png",
                         query |-> "cat-back"] >>
    /\ a_doc.quantity = 3
    /\ a_doc.bracket = 18

\* C8: the fronts are, for each pairing request whose two names are found, in
\* request order, multiplicity(front) copies of the front entry, then for
\* every file entry whose name no found pair consumed, in listing order,
\* multiplicity(name) copies; the backs are, per found pair in request order,
\* multiplicity(back) copies of the back entry; and the scenario cat.png,
\* dog.png, cat-back.png gives fronts cat, dog, dog, one back with query
\* cat-back, quantity 3, bracket 18.
C8_AssemblyOrder ==
    a_pc = "written" =>
        \E entries \in {FileItems(a_files, a_exclude)} :
        \E found \in {FoundRequests(entries)} :
            /\ CardFaces(a_doc.fronts) = CardFaces(ExpectedFronts(entries, found))
            /\ CardFaces(a_doc.backs) = CardFaces(ExpectedBacks(entries, found))
            /\ (ScenarioGiven => ScenarioResult)

C8_Witness ==
    a_pc = "written" /\ ScenarioGiven /\ ScenarioResult

\* The warnings printed, in order: the missing names of each.
WarningsLogged ==
    LET w == SelectSeq(a_log,
                 LAMBDA l : l.msg = "Warning: Could not find files for double-sided pair")
    IN  [k \in 1..Len(w) |-> w[k].missing]

\* The names of a request that are absent from the file entries, front first.
AbsentNames(names, p) ==
    (IF p[1] \in names THEN <<>> ELSE <<p[1]>>)
        \o (IF p[2] \in names THEN <<>> ELSE <<p[2]>>)

FallbackGiven ==
    /\ a_files = <<FileCat, FileDog, FileBack>>
    /\ a_pairs = << <<"cat.png", "missing.png">> >>
    /\ a_exclude = <<>>
    /\ a_multiples = <<>>

FallbackResult ==
    /\ CardFaces(a_doc.fronts) = CardFaces(<<FileCat, FileDog, FileBack>>)
    /\ a_doc.backs = <<>>
    /\ WarningsLogged = << <<"missing.png">> >>

\* C9: a pairing request naming an absent front or back gets a warning, adds
\* nothing to backs and consumes neither name: every back card is the back of
\* a found request, and every file entry named by no found request is in
\* fronts multiplicity(name) times; entries A, B, C with request (A, X), X
\* absent, give fronts A, B, C and no backs.
C9_PairingFallback ==
    a_pc = "written" =>
        \E entries \in {FileItems(a_files, a_exclude)} :
        \E found \in {FoundRequests(entries)} :
        \E failed \in {FailedRequests(entries)} :
            /\ WarningsLogged = [k \in 1..Len(failed) |->
                                    AbsentNames(NamesOf(entries), failed[k])]
            /\ \A b \in 1..Len(a_doc.backs) :
                   \E k \in 1..Len(found) : a_doc.backs[b].name = found[k][2]
            /\ (found = <<>> => a_doc.backs = <<>>)
            /\ \A k \in 1..Len(entries) :
                   entries[k].name \notin ConsumedNames(found) =>
                       Cardinality({f \in 1..Len(a_doc.fronts) :
                                       /\ a_doc.fronts[f].id = entries[k].id
                                       /\ a_doc.fronts[f].name = entries[k].name})
                           = Multiplicity(entries[k].name)
            /\ (FallbackGiven => FallbackResult)

\* A request with an absent back failed while the listing held A, B and C.
C9_Witness ==
    a_pc = "written" /\ FallbackGiven /\ FallbackResult

\* C10 (as claimed): quantity is the explicit quantity, else the number of
\* front slots; bracket is the explicit bracket, else the table lookup of
\* that resulting quantity.
C10_QuantityBracket ==
    a_pc = "written" =>
        /\ a_doc.quantity = (IF a_quantity = None THEN Len(a_doc.fronts)
                             ELSE a_quantity[1])
        /\ a_doc.bracket = (IF a_bracket = None
                            THEN SmallestBracketAtLeast(a_doc.quantity)
                            ELSE a_bracket[1])

(***************************************************************************)
(* Claims about every document, assembled or merged.                       *)
(***************************************************************************)
\* The i-th card (0-based) of a list of card elements has slots = i.
SlotsArePositions(cards) == \A k \in 1..Len(cards) : cards[k].slots = k - 1

\* C3: in every document the assembler or the merger emits, the i-th card of
\* fronts has slots = i and the i-th card of backs has slots = i (0-based),
\* whatever the order of the entries or the slots stored in the inputs were.
C3_SlotRenumbering ==
    /\ (a_pc = "written" =>
            SlotsArePositions(a_doc.fronts) /\ SlotsArePositions(a_doc.backs))
    /\ (m_pc = "written" =>
            SlotsArePositions(m_doc.fronts) /\ SlotsArePositions(m_doc.backs))

\* A document whose cards were stored with slots 5 and 7 was merged after
\* another one, and its cards were renumbered.
C3_Witness ==
    /\ m_pc = "written"
    /\ m_input_files = <<DocA, DocB>>
    /\ Len(m_doc.fronts) = 3
    /\ m_doc.fronts[3].id = "id_b_front_1"
    /\ m_doc.fronts[3].slots = 2
    /\ m_doc.backs[1].slots = 0

(***************************************************************************)
(* Claims about the Traversal Engine.                                      *)
(***************************************************************************)
\* Every fetch was issued by an activation above the depth bound.
NoFetchAtMaxDepth ==
    \A i \in DOMAIN t_fetches : t_fetches[i].current_depth < t_max_depth

\* An activation at the depth bound or below it has not gone past its entry.
BoundedActivationsAtEntry ==
    \A k \in DOMAIN t_stack :
        t_stack[k].current_depth >= t_max_depth =>
            t_stack[k].pc = "enter" /\ t_stack[k].files = <<>>

\* C4 as stated: for maxDepth = d no recursive call has a depth >= d, that
\* is, a step at depth k recurses only when k + 1 < d.
C4_NoCallAtMaxDepth ==
    \A i \in DOMAIN t_calls :
        t_calls[i].current_depth >= 1 => t_calls[i].current_depth < t_max_depth

\* C4: for maxDepth = d, no call has a depth above d and recursive calls are
\* made only when recursion is enabled; no step (fetch, extraction, loop over
\* folders) runs at a depth >= d.  A step at depth k < d recurses into its
\* folders, so a step at depth d - 1 does call at depth d: that call stays at
\* its entry and returns the empty list without a fetch.
C4_DepthBound ==
    /\ \A i \in DOMAIN t_calls :
        /\ t_calls[i].current_depth <= t_max_depth
        /\ t_calls[i].current_depth >= 1 => t_recursive
    /\ NoFetchAtMaxDepth
    /\ BoundedActivationsAtEntry

\* A traversal is over in which a call was made at depth d >= 1, and
\* nothing was fetched at that depth.
C4_Witness ==
    /\ t_pc = "done"
    /\ t_max_depth >= 1
    /\ \E i \in DOMAIN t_calls : t_calls[i].current_depth = t_max_depth
    /\ NoFetchAtMaxDepth

\* The number of fetches of folder_id so far.
FetchCount(folder_id) ==
    Cardinality({i \in DOMAIN t_fetches : t_fetches[i].folder_id = folder_id})

\* The number of activations of folder_id on the call chain that have fetched.
ChainCount(folder_id) ==
    Cardinality({k \in DOMAIN t_stack :
                    t_stack[k].folder_id = folder_id /\ t_stack[k].pc # "enter"})

FetchesBoundedByDepth ==
    /\ NoFetchAtMaxDepth
    /\ Len(t_stack) <= t_max_depth + 1
    /\ \A k \in DOMAIN t_stack : ChainCount(t_stack[k].folder_id) <= t_max_depth
    /\ t_world = WorldSelf => FetchCount(WorldSelf.root) <= t_max_depth
    /\ t_max_depth = 0 =>
        /\ t_fetches = <<>>
        /\ t_pc = "done" => t_result = <<>>

\* C5: a traversal always terminates for any finite maxDepth = d, also when
\* a folder's markup lists the folder's own id as its child: such a folder is
\* fetched at most d times along the chain, nothing is fetched at a depth
\* >= d, and with d = 0 the empty list is returned without any fetch.
C5_Termination == []FetchesBoundedByDepth /\ <>(t_pc = "done")

\* The traversal of the self-referential folder is over with the largest
\* depth bound, and the folder was fetched that many times.
C5_Witness ==
    /\ t_pc = "done"
    /\ t_world = WorldSelf
    /\ t_recursive
    /\ t_max_depth = MaxDepth
    /\ FetchCount(WorldSelf.root) = MaxDepth
    /\ \A i \in DOMAIN t_fetches : t_fetches[i].ok

\* No two entries of files share a non-empty id, and no two share a name.
NoSharedIdOrName(files) ==
    \A i, j \in 1..Len(files) :
        i < j =>
            /\ files[i].name # files[j].name
            /\ (files[i].id # "" => files[i].id # files[j].id)

\* C6 as stated: the list returned by one complete traversal, recursion
\* enabled or not, has no two entries with the same non-empty id and no two
\* with the same name, also across the folders of the tree.
C6_ResultUnique == t_pc = "done" => NoSharedIdOrName(t_result)

\* C6: the list one step validates (the deduplicator's output for one
\* folder, before any child result is appended) has no two entries with the
\* same non-empty id and no two with the same name, and so has the list
\* returned by a traversal without recursion.
C6_StepUnique ==
    /\ \A k \in DOMAIN t_stack :
        (t_stack[k].pc = "loop" /\ t_stack[k].idx = 1) =>
            NoSharedIdOrName(t_stack[k].files)
    /\ (t_pc = "done" /\ ~t_recursive) => NoSharedIdOrName(t_result)

\* A traversal without recursion is over; the markup held two entries of
\* one name and two of one id, of which the result holds the first only.
C6_Witness ==
    /\ t_pc = "done"
    /\ ~t_recursive
    /\ t_world = WorldTree
    /\ Len(t_result) = 4
    /\ t_result[1].id = "id_cat_00001"
    /\ t_result[1].name = "cat.png"

(***************************************************************************)
(* Claims about failures of the assembler and the merger.                  *)
(***************************************************************************)
\* C11: when no file entry remains after dropping folders and excluded
\* names, the assembler reports the condition, writes no document, and the
\* calling process exits with a non-zero status.
C11_AssemblyFailure ==
    (a_pc # "idle" /\ a_exit # None /\ FileItems(a_files, a_exclude) = <<>>) =>
        /\ \E k \in DOMAIN a_log : a_log[k].msg = "No files found to generate XML"
        /\ a_doc = NoDocument
        /\ a_exit[1] # 0

(***************************************************************************)
(* Claims about the Order Merger.                                          *)
(***************************************************************************)
\* The input documents that were read: neither missing nor unparsable.
ReadDocuments(input_files) == SelectSeq(input_files, LAMBDA doc : doc.status = "ok")

RECURSIVE TotalCards(_, _)
\* The number of cards of one side ("fronts" or "backs") in docs.
TotalCards(docs, side) ==
    IF docs = <<>> THEN 0
    ELSE (IF side = "fronts" THEN Len(docs[1].fronts) ELSE Len(docs[1].backs))
         + TotalCards(Tail(docs), side)

ExpectedMergedQuantity(docs) ==
    LET fronts == TotalCards(docs, "fronts")
        backs == TotalCards(docs, "backs")
    IN  IF backs >= 1 /\ backs > fronts THEN backs ELSE fronts

\* C12: the merged quantity is max(total fronts, total backs) over the input
\* documents that were read when at least one back exists, and the total
\* number of fronts otherwise; a document with 20 fronts and no back merged
\* with one with 10 fronts and 10 backs gives quantity 30 and, in auto mode,
\* bracket 36.
C12_MergedQuantity ==
    m_pc = "written" =>
        /\ m_doc.quantity = ExpectedMergedQuantity(ReadDocuments(m_input_files))
        /\ (m_input_files = <<DocTwenty, DocTenTen>> /\ m_auto_bracket) =>
                m_doc.quantity = 30 /\ m_doc.bracket = 36

\* The 20-front document and the 10/10 document were merged in auto mode.
C12_Witness ==
    /\ m_pc = "written"
    /\ m_input_files = <<DocTwenty, DocTenTen>>
    /\ m_auto_bracket
    /\ Len(m_doc.fronts) = 30
    /\ Len(m_doc.backs) = 10
    /\ m_doc.quantity = 30

\* The brackets declared by docs (a details element with a bracket element).
BracketsDeclared(docs) ==
    {docs[k].details[1].bracket[1] :
        k \in {j \in 1..Len(docs) :
                  docs[j].details # None /\ docs[j].details[1].bracket # None}}

\* C13: the merged bracket is, in auto mode, the bracket-table lookup of the
\* combined quantity; in non-auto mode the largest bracket declared by an
\* input document, and the lookup of the combined quantity when no input
\* document declares one.
C13_MergedBracket ==
    m_pc = "written" =>
        \E declared \in {BracketsDeclared(ReadDocuments(m_input_files))} :
            m_doc.bracket =
                IF m_auto_bracket \/ declared = {}
                THEN SmallestBracketAtLeast(m_doc.quantity)
                ELSE CHOOSE b \in declared : \A other \in declared : other <= b

\* Documents declaring 18 and 36 were merged in non-auto mode into 3 fronts:
\* the bracket is 36, where the lookup of the quantity gives 18.
C13_Witness ==
    /\ m_pc = "written"
    /\ ~m_auto_bracket
    /\ m_input_files = <<DocB, DocA>>
    /\ m_doc.quantity = 3
    /\ m_doc.bracket = 36

\* The faces of a card list: what a card is apart from its slot.
Faces(cards) == [k \in 1..Len(cards) |-> [id |-> cards[k].id, name |-> cards[k].name]]

RECURSIVE ConcatFaces(_, _)
ConcatFaces(docs, side) ==
    IF docs = <<>> THEN <<>>
    ELSE Faces(IF side = "fronts" THEN docs[1].fronts ELSE docs[1].backs)
         \o ConcatFaces(Tail(docs), side)

\* C14: the merged fronts are the concatenation of the input documents'
\* fronts in the order the documents were given, each document's cards in
\* their own order, no card added, dropped or duplicated; likewise the backs.
C14_Concatenation ==
    m_pc = "written" =>
        \E docs \in {ReadDocuments(m_input_files)} :
            /\ Faces(m_doc.fronts) = ConcatFaces(docs, "fronts")
            /\ Faces(m_doc.backs) = ConcatFaces(docs, "backs")

\* Two documents with fronts and backs each were merged, the later-named
\* document given first.
C14_Witness ==
    /\ m_pc = "written"
    /\ m_input_files = <<DocNoDetails, DocB>>
    /\ Len(m_doc.fronts) = 2
    /\ m_doc.fronts[1].id = "id_c_front_1"
    /\ m_doc.fronts[2].id = "id_b_front_1"
    /\ Len(m_doc.backs) = 3
    /\ m_doc.backs[3].id = "id_b_back_1"

\* The stock, foil and cardback expected when doc is the document the
\* values are taken from; a document that was not read declares nothing.
DeclaresStock(doc) ==
    /\ doc.status = "ok" /\ doc.details # None
    /\ doc.details[1].stock # None /\ doc.details[1].stock[1] # ""
DeclaresFoil(doc) ==
    /\ doc.status = "ok" /\ doc.details # None
    /\ doc.details[1].foil # None
DeclaresCardback(doc) ==
    doc.status = "ok" /\ doc.cardback # None /\ doc.cardback[1] # ""

ResolvedMetadata(doc) ==
    [stock |-> IF m_stock # None THEN m_stock[1]
               ELSE IF DeclaresStock(doc) THEN doc.details[1].stock[1]
               ELSE "(S30) Standard Smooth",
     foil |-> IF m_foil # None THEN (IF m_foil[1] THEN "true" ELSE "false")
              ELSE IF DeclaresFoil(doc) /\ lower(doc.details[1].foil[1]) = "true"
              THEN "true" ELSE "false",
     cardback |-> IF m_cardback # None THEN m_cardback[1]
                  ELSE IF DeclaresCardback(doc) THEN doc.cardback[1]
                  ELSE "12RJeMQw2E0jEz4SwKJTItoONCeHD7skj"]

WrittenMetadata == [stock |-> m_doc.stock, foil |-> m_doc.foil, cardback |-> m_doc.cardback]

SomeCardRead(input_files) ==
    \E k \in 1..Len(input_files) :
        /\ input_files[k].status = "ok"
        /\ input_files[k].fronts # <<>> \/ input_files[k].backs # <<>>

\* C16: the merger fails with no document (error reported, non-zero exit,
\* nothing written) when the input documents together yield no front and no
\* back; a missing or unparsable input document is skipped and does not
\* keep the remaining documents from being merged.
C16_MergeFailure ==
    m_pc \in {"written", "exit1"} =>
        IF SomeCardRead(m_input_files)
        THEN /\ m_pc = "written"
             /\ Len(m_doc.fronts) + Len(m_doc.backs) >= 1
             /\ Len(m_doc.fronts) =
                    TotalCards(ReadDocuments(m_input_files), "fronts")
        ELSE /\ m_pc = "exit1"
             /\ m_doc = NoDocument
             /\ m_log # <<>>
             /\ m_log[Len(m_log)].msg \in {"Error: No cards found in any input files",
                                           "Error: No input files specified"}

\* A document without cards and an unparsable one were given: exit 1.
C16_Witness ==
    /\ m_pc = "exit1"
    /\ m_input_files = <<DocNoCards, DocUnparsable>>
    /\ m_doc = NoDocument

(***************************************************************************)
(* Claims about the Entry Classifier.                                      *)
(***************************************************************************)
\* C17 as stated: an item with the image-preview signal, and with neither
\* the folder mime marker nor the pre-set folder flag, is classified as a
\* file.
C17_ImagePreviewIsFile ==
    (c_pc = "done" /\ c_item.has_image_preview
        /\ ~HasFolderMime(c_item) /\ ~c_item.isFolder) => ~c_is_folder

\* C17: an item with the image-preview signal is classified as a file when
\* it has none of the folder signals tested before it: no folder mime
\* marker, no pre-set folder flag, no target "folder", no class name
\* containing "folder", no href containing "/folders/" and no label
\* containing "shared folder".
C17_ImagePreviewAfterFolderSignals ==
    (c_pc = "done" /\ c_item.has_image_preview
        /\ lower(c_item.mimeType) # "application/vnd.google-apps.folder"
        /\ ~c_item.isFolder
        /\ c_item.data_target # "folder"
        /\ (\A k \in 1..Len(c_item.class) : ~contains(lower(c_item.class[k]), "folder"))
        /\ ~contains(c_item.href, "/folders/")
        /\ ~contains(lower(c_item.aria_label), "shared folder"))
    => ~c_is_folder

\* A document-like item without a file extension, which the last rule would
\* call a folder, has the image-preview signal and is classified as a file.
C17_Witness ==
    /\ c_pc = "done"
    /\ c_item.has_image_preview
    /\ c_item.data_target = "doc"
    /\ c_item.name = "cards"
    /\ c_item.mimeType = "unknown" /\ ~c_item.isFolder
    /\ c_item.class = <<"item">> /\ c_item.href = "" /\ c_item.aria_label = ""
    /\ ~c_is_folder

(***************************************************************************)
(* Claims about the Traversal Engine: failures and exclusion.              *)
(***************************************************************************)
\* The entries the step of a fetch validated.
EntriesOfFetch(fetch) ==
    StepFiles(MarkupOf(t_world, fetch.folder_id), fetch.current_path)

RECURSIVE EntriesFetched(_)
\* The number of entries validated by the steps of the fetches that succeeded.
EntriesFetched(fetches) ==
    IF fetches = <<>> THEN 0
    ELSE (IF fetches[1].ok THEN Len(EntriesOfFetch(fetches[1])) ELSE 0)
         + EntriesFetched(Tail(fetches))

\* path is the path of the call of fetch or of a call beneath it.
AtOrBeneath(path, fetch) ==
    \/ path = fetch.current_path
    \/ startswith(path, fetch.current_path \o "/")

\* The folders a step recurses into: valid id, name not excluded.
FoldersToVisit(files) ==
    SelectSeq(files, LAMBDA e : e.isFolder /\ e.id # "" /\ Len(e.id) > 10
                                /\ \A k \in 1..Len(t_exclude) :
                                        lower(e.name) # lower(t_exclude[k]))

\* C18: a failed fetch of one subfolder's markup contributes no entry for
\* that subfolder and does not abort the traversal: the entries of every
\* step that fetched are kept, every sibling folder is still visited, and
\* the root call returns a list.
C18_FailedFetchIsolated ==
    (t_pc = "done" /\ t_recursive) =>
        /\ Len(t_result) = EntriesFetched(t_fetches)
        /\ \A i \in DOMAIN t_fetches :
            IF t_fetches[i].ok
            THEN \E files \in {EntriesOfFetch(t_fetches[i])} :
                    /\ \A k \in 1..Len(files) :
                            \E j \in 1..Len(t_result) : t_result[j] = files[k]
                    /\ \E folders \in {FoldersToVisit(files)} :
                        \A k \in 1..Len(folders) :
                            \E j \in DOMAIN t_calls :
                                /\ t_calls[j].folder_id = folders[k].id
                                /\ t_calls[j].current_depth =
                                        t_fetches[i].current_depth + 1
            ELSE t_fetches[i].current_depth >= 1 =>
                    \A j \in 1..Len(t_result) :
                        ~AtOrBeneath(t_result[j].path, t_fetches[i])

\* The fetch of Set A failed; the root's entries are in the result and the
\* sibling set b was fetched afterwards, its dog.png is in the result.
C18_Witness ==
    /\ t_pc = "done"
    /\ t_world = WorldTree
    /\ t_recursive
    /\ \E i, j \in DOMAIN t_fetches :
        /\ i < j
        /\ t_fetches[i].folder_id = "id_seta_0001" /\ ~t_fetches[i].ok
        /\ t_fetches[j].folder_id = "id_setb_0001" /\ t_fetches[j].ok
    /\ \E j \in 1..Len(t_result) : t_result[j].name = "dog.png" /\ t_result[j].path = "set b"
    /\ t_result[1].name = "cat.png" /\ t_result[1].path = ""

RECURSIVE PathComponents(_, _)
\* The names a path joins with "/"; acc is the name being read.
PathComponents(path, acc) ==
    IF path = "" THEN <<acc>>
    ELSE IF CharAt(path, 1) = "/"
         THEN <<acc>> \o PathComponents(SubSeq(path, 2, Len(path)), "")
         ELSE PathComponents(SubSeq(path, 2, Len(path)), acc \o CharAt(path, 1))

\* name equals a member of the root's exclude set, ignoring case.
ExcludedAtRoot(name) ==
    \E k \in 1..Len(t_exclude) : lower(name) = lower(t_exclude[k])

\* C19: with recursion enabled, at every depth, no recursive call is made
\* for a folder entry whose name equals a member of the exclude set ignoring
\* case, so no entry discovered beneath such a folder is in the result; the
\* exclude set passed to every recursive call is the one of the root.
C19_ExcludedFoldersNotEntered ==
    /\ \A j \in DOMAIN t_calls :
        /\ t_calls[j].exclude_folders = t_exclude
        /\ t_calls[j].current_depth >= 1 =>
            \E names \in {PathComponents(t_calls[j].current_path, "")} :
                ~ExcludedAtRoot(names[Len(names)])
    /\ t_pc = "done" =>
        \A j \in 1..Len(t_result) :
            t_result[j].path # "" =>
                \E names \in {PathComponents(t_result[j].path, "")} :
                    \A k \in 1..Len(names) : ~ExcludedAtRoot(names[k])

\* The tree was traversed with "SET B" excluded: the folder "set b" is
\* listed, it was never fetched, and Set A beside it was.
C19_Witness ==
    /\ t_pc = "done"
    /\ t_world = WorldTree
    /\ t_recursive
    /\ t_exclude = <<"SET B">>
    /\ \E j \in 1..Len(t_result) : t_result[j].name = "set b" /\ t_result[j].isFolder
    /\ \A i \in DOMAIN t_fetches : t_fetches[i].folder_id # "id_setb_0001"
    /\ \E i \in DOMAIN t_fetches :
        t_fetches[i].folder_id = "id_deep_0001" /\ t_fetches[i].ok

(***************************************************************************)
(* Claims about exclusion in the Order Assembler.                          *)
(***************************************************************************)
\* name equals a member of the assembler's exclude list, ignoring case.
NameExcluded(name) ==
    \E k \in 1..Len(a_exclude) : lower(name) = lower(a_exclude[k])

\* card is a file entry of the listing whose name is not excluded.
IsEligibleCard(card) ==
    /\ ~NameExcluded(card.name)
    /\ \E k \in 1..Len(a_files) :
        /\ ~a_files[k].isFolder
        /\ a_files[k].id = card.id
        /\ a_files[k].name = card.name
    /\ ~\E k \in 1..Len(a_files) :
        a_files[k].isFolder /\ a_files[k].id = card.id

\* C20: in every assembled document no folder entry and no entry whose name
\* equals a member of the exclude list ignoring case is in fronts or backs,
\* also when that name is named by a pairing request: the request is then
\* treated as having a missing file.
C20_ExcludedNeverAssembled ==
    a_pc = "written" =>
        /\ \A k \in 1..Len(a_doc.fronts) : IsEligibleCard(a_doc.fronts[k])
        /\ \A k \in 1..Len(a_doc.backs) : IsEligibleCard(a_doc.backs[k])
        /\ \A k \in 1..Len(a_pairs) :
            \A side \in 1..2 :
                NameExcluded(a_pairs[k][side]) =>
                    \E w \in 1..Len(WarningsLogged) :
                        \E n \in 1..Len(WarningsLogged[w]) :
                            WarningsLogged[w][n] = a_pairs[k][side]

\* dog.png is in the listing beside a folder, is excluded as DOG.PNG and is
\* named as the front of a request: the document has no back and the
\* request's back is a front.
C20_Witness ==
    /\ a_pc = "written"
    /\ a_files = <<FolderSub, FileDog, FileBack>>
    /\ a_exclude = <<"DOG.PNG">>
    /\ a_pairs = << <<"dog.png", "cat-back.png">> >>
    /\ a_doc.backs = <<>>
    /\ Len(a_doc.fronts) = 1
    /\ a_doc.fronts[1].name = "cat-back.png"

(***************************************************************************)
(* Claims about the Entry Classifier: the order of the rules.              *)
(***************************************************************************)
\* The rules of the classifier in the stated order, each with whether it
\* applies to item and the verdict it gives (TRUE for folder).
ClassifierRules(item) ==
    << [applies |-> lower(item.mimeType) = "application/vnd.google-apps.folder",
        folder |-> TRUE],
       [applies |-> item.isFolder, folder |-> TRUE],
       [applies |-> item.data_target = "folder", folder |-> TRUE],
       [applies |-> \E k \in 1..Len(item.class) :
                        contains(lower(item.class[k]), "folder"),
        folder |-> TRUE],
       [applies |-> contains(item.href, "/folders/"), folder |-> TRUE],
       [applies |-> contains(lower(item.aria_label), "shared folder"),
        folder |-> TRUE],
       [applies |-> /\ contains(lower(item.aria_label), "image")
                    /\ contains(lower(item.aria_label), "more info"),
        folder |-> FALSE],
       [applies |-> item.has_image_preview, folder |-> FALSE],
       [applies |-> \/ lower(item.mimeType) = "application/vnd.google-apps.document"
                    \/ item.data_target = "doc",
        folder |-> ~\E ext \in KnownFileExtensions :
                        endswith(lower(item.name), ext)],
       [applies |-> TRUE, folder |-> FALSE] >>

\* The verdict of the first rule that applies.
FirstVerdict(rules) ==
    rules[SetMin({k \in 1..Len(rules) : rules[k].applies})].folder

\* C21: the classifier returns the verdict of the first rule that applies,
\* the rules taken in the stated order from the folder mime marker to the
\* final "otherwise file"; hence an item with the folder mime marker is a
\* folder whatever its other signals are.
C21_FirstRuleWins ==
    c_pc = "done" =>
        /\ c_is_folder = FirstVerdict(ClassifierRules(c_item))
        /\ (lower(c_item.mimeType) = "application/vnd.google-apps.folder"
                => c_is_folder)

\* An item with the folder mime marker written in mixed case, the image
\* preview, an image label and a file name with a known extension is
\* classified as a folder.
C21_Witness ==
    /\ c_pc = "done"
    /\ c_item.mimeType = "Application/Vnd.Google-Apps.Folder"
    /\ ~c_item.isFolder
    /\ c_item.data_target = "doc"
    /\ c_item.has_image_preview
    /\ c_item.aria_label = "cat.png Image More info"
    /\ c_item.name = "cat.png"
    /\ c_is_folder

(***************************************************************************)
(* Claims about the Traversal Engine: the extraction strategies.           *)
(***************************************************************************)
\* The outputs of the five strategies on markup, in the order they are tried.
StrategyOutputs(markup) ==
    <<markup.extract_data, markup.script_tags, markup.data_attributes,
      markup.html, markup.meta_tags>>

\* The strategies of outputs that yield an entry.
Yielding(outputs) == {k \in 1..Len(outputs) : outputs[k] # <<>>}

\* The names and ids of a list of entries, in order.
NamesAndIds(entries) ==
    [k \in 1..Len(entries) |-> <<entries[k].name, entries[k].id>>]

\* C22: in every step the list handed to the deduplicator is the output of
\* the first strategy, in the order decoration class, script data, data
\* attributes, generic elements, metadata, whose output is non-empty (the
\* empty list when none yields); the step's validated entries are the
\* deduplicator's output on that list alone.
C22_FirstYieldingStrategy ==
    \A i \in 1..Len(t_stack) :
        t_stack[i].pc = "loop" =>
            \E outputs \in {StrategyOutputs(MarkupOf(t_world, t_stack[i].folder_id))} :
                /\ IF Yielding(outputs) = {}
                   THEN t_stack[i].extracted = <<>>
                   ELSE t_stack[i].extracted = outputs[SetMin(Yielding(outputs))]
                /\ \E unique \in {_remove_duplicates(t_stack[i].extracted)} :
                    /\ Len(unique) <= Len(t_stack[i].files)
                    /\ NamesAndIds(SubSeq(t_stack[i].files, 1, Len(unique)))
                        = NamesAndIds(unique)

\* The root of the tree world has been fetched: its first and second
\* strategies both yield, the six entries of the first were handed over and
\* never.png of the second is not among the step's entries.
C22_Witness ==
    /\ t_world = WorldTree
    /\ Len(t_stack) = 1
    /\ t_stack[1].pc = "loop"
    /\ t_stack[1].idx = 1
    /\ MarkupOf(t_world, t_stack[1].folder_id).script_tags # <<>>
    /\ Len(t_stack[1].extracted) = 6
    /\ \A k \in 1..Len(t_stack[1].files) : t_stack[1].files[k].name # "never.png"

(***************************************************************************)
(* Claims about the Deduplicator: which entries are kept.                  *)
(***************************************************************************)
\* The entries of files that pass validation, with the name they are
\* written back with.
ValidEntries(files) ==
    SelectSeq([k \in 1..Len(files) |-> [files[k] EXCEPT !.name = strip(@)]],
              LAMBDA e : ~(\/ e.name = "" \/ Len(e.name) < 2
                           \/ LooksLikeScript(e.name)
                           \/ (e.id # "" /\ Len(e.id) < 10)))

\* The entries of a list at the positions of keep, in order.
RECURSIVE Restrict(_, _, _)
Restrict(entries, keep, k) ==
    IF k > Len(entries) THEN <<>>
    ELSE (IF k \in keep THEN <<entries[k]>> ELSE <<>>) \o Restrict(entries, keep, k + 1)

\* Every later entry whose non-empty id repeats that of an earlier entry is
\* removed.
WithoutIdRepeats(entries) ==
    Restrict(entries,
             {k \in 1..Len(entries) :
                ~(entries[k].id # "" /\ \E j \in 1..(k - 1) : entries[j].id = entries[k].id)},
             1)

\* Every later entry whose name repeats that of an earlier entry is removed.
WithoutNameRepeats(entries) ==
    Restrict(entries,
             {k \in 1..Len(entries) :
                ~\E j \in 1..(k - 1) : entries[j].name = entries[k].name},
             1)

\* C23 as stated: the output is the valid entries with the id repeats
\* removed first and the name repeats of what remains removed next.
C23_IdPassThenNamePass ==
    dd_pc # "start" =>
        dd_once = WithoutNameRepeats(WithoutIdRepeats(ValidEntries(dd_files)))

\* entries[k] repeats the non-empty id or the name of an entry at an earlier
\* position that is in keep.
RepeatsKept(entries, keep, k) ==
    \E j \in keep :
        /\ j < k
        /\ \/ (entries[k].id # "" /\ entries[j].id = entries[k].id)
           \/ entries[j].name = entries[k].name

\* C23: the output is the valid entries in input order, each kept exactly
\* when neither its non-empty id nor its name repeats that of an earlier
\* kept entry; rejected entries and entries dropped as duplicates suppress
\* nothing.
C23_RepeatsOfKeptEntries ==
    dd_pc # "start" =>
        \E valid \in {ValidEntries(dd_files)} :
            \E keep \in SUBSET (1..Len(valid)) :
                /\ \A k \in 1..Len(valid) :
                    k \in keep <=> ~RepeatsKept(valid, keep, k)
                /\ dd_once = Restrict(valid, keep, 1)

\* The second entry repeats the name of the first and is dropped; the third
\* repeats the id of the second alone and is kept.
C23_Witness ==
    /\ dd_pc = "once"
    /\ dd_files = << [name |-> "cat.png", id |-> "id_cat_010", isFolder |-> FALSE],
                     [name |-> " cat.png ", id |-> "id_dog_0011", isFolder |-> FALSE],
                     [name |-> "dog.png", id |-> "id_dog_0011", isFolder |-> FALSE] >>
    /\ Len(dd_once) = 2
    /\ dd_once[2].name = "dog.png"

(***************************************************************************)
(* Claims about the Traversal Engine: the path of an entry.                *)
(***************************************************************************)
\* The path of a subfolder named n of a step with prefix p.
JoinPath(p, n) == IF p = "" THEN n ELSE p \o "/" \o n

\* entry is an entry of the listing of folder_id carrying prefix as its
\* path, or is so located beneath one of the folders of that listing, at
\* most fuel levels down.
RECURSIVE Located(_, _, _, _)
Located(folder_id, prefix, entry, fuel) ==
    \E listing \in {_remove_duplicates(SelectStrategy(MarkupOf(t_world, folder_id)))} :
        \/ /\ entry.path = prefix
           /\ \E k \in 1..Len(listing) :
                /\ listing[k].name = entry.name
                /\ listing[k].id = entry.id
                /\ listing[k].isFolder = entry.isFolder
        \/ /\ fuel > 0
           /\ \E k \in 1..Len(listing) :
                /\ listing[k].isFolder
                /\ Located(listing[k].id, JoinPath(prefix, listing[k].name),
                           entry, fuel - 1)

\* Every entry held by an activation or returned carries the path of the
\* folders descended through from the root to the step that listed it.
PathsLocated ==
    /\ \A i \in 1..Len(t_stack) :
        /\ t_stack[i].current_path =
                IF i = 1 THEN ""
                ELSE JoinPath(t_stack[i - 1].current_path,
                              t_stack[i - 1].folders[t_stack[i - 1].idx].name)
        /\ \A k \in 1..Len(t_stack[i].files) :
                Located(t_world.root, "", t_stack[i].files[k], t_max_depth)
    /\ \A k \in 1..Len(t_result) :
        Located(t_world.root, "", t_result[k], t_max_depth)

\* a is the beginning of b.
IsPrefixOf(a, b) == Len(a) <= Len(b) /\ SubSeq(b, 1, Len(a)) = a

\* a is the end of b.
IsSuffixOf(a, b) ==
    Len(a) <= Len(b) /\ SubSeq(b, Len(b) - Len(a) + 1, Len(b)) = a

\* A step leaves the entries an activation holds as they are, and a return
\* hands the entries over as they are.
PathsKept ==
    /\ \A i \in 1..Len(t_stack) :
        (i <= Len(t_stack') /\ t_stack[i].pc = "loop")
            => IsPrefixOf(t_stack[i].files, t_stack'[i].files)
    /\ (Len(t_stack') = Len(t_stack) - 1 /\ Top.pc = "loop") =>
            IF Len(t_stack) = 1
            THEN t_result' = Top.files
            ELSE IsSuffixOf(Top.files, t_stack'[Len(t_stack')].files)

\* C24: every entry carries as path the slash-joined names of the folders
\* descended through to the step that discovered it: "" at the root, n for a
\* subfolder n of a step with empty prefix, p/n otherwise; the path is not
\* changed after that step.
C24_PathOfDiscovery == []PathsLocated /\ [][PathsKept]_vars

\* The tree was traversed three levels deep: cat.png of the root has path
\* "", cat.png of Set A has path "Set A" and dog.png of Deep has path
\* "Set A/Deep".
C24_Witness ==
    /\ t_pc = "done"
    /\ t_world = WorldTree
    /\ \E k \in 1..Len(t_result) :
        t_result[k].id = "id_cat_00001" /\ t_result[k].path = ""
    /\ \E k \in 1..Len(t_result) :
        t_result[k].id = "id_cat_00003" /\ t_result[k].path = "Set A"
    /\ \E k \in 1..Len(t_result) :
        t_result[k].id = "id_dog_00001" /\ t_result[k].path = "Set A/Deep"

(***************************************************************************)
(* Claims about the Traversal Engine: the order of the fetches.            *)
(***************************************************************************)
\* The folder of path inner is the folder of path outer or lies beneath it.
Beneath(inner, outer) ==
    \/ outer = ""
    \/ inner = outer
    \/ startswith(inner, outer \o "/")

\* The path of the folder that lists the folder of path.
RECURSIVE ParentPath(_)
ParentPath(path) ==
    IF path = "" THEN ""
    ELSE IF CharAt(path, Len(path)) = "/" THEN SubSeq(path, 1, Len(path) - 1)
    ELSE IF Len(path) = 1 THEN ""
    ELSE ParentPath(SubSeq(path, 1, Len(path) - 1))

\* The fetches so far are in depth-first order, one per visit.
DepthFirstFetches ==
    /\ \A i, j \in DOMAIN t_fetches :
        (i # j) => t_fetches[i].current_path # t_fetches[j].current_path
    /\ \A j \in DOMAIN t_fetches :
        /\ \E c \in DOMAIN t_calls :
            /\ t_calls[c].folder_id = t_fetches[j].folder_id
            /\ t_calls[c].current_path = t_fetches[j].current_path
            /\ t_calls[c].current_depth = t_fetches[j].current_depth
        /\ IF t_fetches[j].current_depth = 0
           THEN j = 1 /\ t_fetches[j].current_path = ""
           ELSE \E i \in 1..(j - 1) :
                    /\ t_fetches[i].ok
                    /\ t_fetches[i].current_depth = t_fetches[j].current_depth - 1
                    /\ t_fetches[i].current_path = ParentPath(t_fetches[j].current_path)
    /\ \A i, j, k \in DOMAIN t_fetches :
        (i < j /\ j < k
            /\ Beneath(t_fetches[k].current_path, t_fetches[i].current_path))
        => Beneath(t_fetches[j].current_path, t_fetches[i].current_path)

\* A step issues at most one fetch, by the activation that is running, and
\* leaves the earlier fetches as they are.
OneFetchPerStep ==
    \/ t_fetches' = t_fetches
    \/ /\ Len(t_fetches') = Len(t_fetches) + 1
       /\ SubSeq(t_fetches', 1, Len(t_fetches)) = t_fetches
       /\ t_fetches'[Len(t_fetches')].folder_id = Top.folder_id
       /\ t_fetches'[Len(t_fetches')].current_path = Top.current_path
       /\ Top.pc = "enter"

\* C25: the fetches happen one at a time in depth-first order: a folder is
\* fetched before its descendants, the fetches of the subtree of one child
\* are over before the fetch of the next sibling, and a visit of a folder
\* fetches at most once, also when the fetch failed.
C25_DepthFirstOrder == []DepthFirstFetches /\ [][OneFetchPerStep]_vars

\* The tree was traversed: the root, Set A, Deep beneath Set A, and set b
\* after them were fetched in this order.
C25_Witness ==
    /\ t_pc = "done"
    /\ t_world = WorldTree
    /\ Len(t_fetches) = 4
    /\ [i \in 1..4 |-> t_fetches[i].current_path] = <<"", "Set A", "Set A/Deep", "set b">>
    /\ \A i \in 1..4 : t_fetches[i].ok

(***************************************************************************)
(* Claims about the Order Merger: bracket and quantity.                    *)
(***************************************************************************)
\* C26: in every merged document, in auto and in non-auto mode, the bracket
\* is at least the quantity whenever the quantity is at most 612.
C26_BracketCoversQuantity ==
    (m_pc = "written" /\ m_doc.quantity <= 612) => m_doc.bracket >= m_doc.quantity

(***************************************************************************)
(* Claims about the Traversal Engine: coverage of the subtree.             *)
(***************************************************************************)
\* The folder entry of the listing of fetch was fetched by a call one level
\* deeper.
FolderWasFetched(folder, fetch) ==
    \E j \in DOMAIN t_fetches :
        /\ t_fetches[j].folder_id = folder.id
        /\ t_fetches[j].current_depth = fetch.current_depth + 1
        /\ t_fetches[j].current_path = JoinPath(fetch.current_path, folder.name)

\* C27: with recursion enabled, every folder entry that survives validation
\* with a non-empty id, is not excluded and is discovered at a depth k with
\* k + 1 < maxDepth is fetched by a recursive call.
C27_ValidFoldersFetched ==
    (t_pc = "done" /\ t_recursive) =>
        \A i \in DOMAIN t_fetches :
            (t_fetches[i].ok /\ t_fetches[i].current_depth + 1 < t_max_depth) =>
                \E files \in {EntriesOfFetch(t_fetches[i])} :
                    \A k \in 1..Len(files) :
                        (/\ files[k].isFolder
                         /\ files[k].id # ""
                         /\ ~ExcludedAtRoot(files[k].name))
                        => FolderWasFetched(files[k], t_fetches[i])

(***************************************************************************)
(* Claims about the Order Assembler: no file is lost.                      *)
(***************************************************************************)
\* The ids of the cards of the document.
AssembledIds(doc) ==
    {doc.fronts[k].id : k \in 1..Len(doc.fronts)}
        \cup {doc.backs[k].id : k \in 1..Len(doc.backs)}

\* C28: for any listing, also one holding two entries of one name from
\* different folders, any pairing requests and any multiplicities >= 1, the
\* id of every entry that is no folder and is not excluded is on a front or
\* a back slot of the assembled document.
C28_NoFileLost ==
    (a_pc = "written" /\ \A name \in DOMAIN a_multiples : a_multiples[name] >= 1) =>
        \A k \in 1..Len(a_files) :
            (~a_files[k].isFolder /\ ~NameExcluded(a_files[k].name))
                => a_files[k].id \in AssembledIds(a_doc)

(***************************************************************************)
(* Claims about the Order Merger: fronts and backs of one card.            *)
(***************************************************************************)
\* Every back of doc is stored at the slot of a front of doc.
BacksFaceFronts(doc) ==
    \A p \in 1..Len(doc.backs) :
        \E q \in 1..Len(doc.fronts) : doc.fronts[q].slots = doc.backs[p].slots

\* C29: when in every input document each back at slot i is the reverse
\* face of that document's front at slot i, each back of the merged document
\* has the slot of the front it faced in its source document.
C29_BacksFollowFronts ==
    m_pc = "written" =>
        \E docs \in {ReadDocuments(m_input_files)} :
            (\A d \in 1..Len(docs) : BacksFaceFronts(docs[d])) =>
                \A d \in 1..Len(docs) :
                    \E front_offset \in {TotalCards(SubSeq(docs, 1, d - 1), "fronts")} :
                    \E back_offset \in {TotalCards(SubSeq(docs, 1, d - 1), "backs")} :
                        \A p \in 1..Len(docs[d].backs) :
                            \A q \in 1..Len(docs[d].fronts) :
                                docs[d].fronts[q].slots = docs[d].backs[p].slots =>
                                    m_doc.backs[back_offset + p].slots
                                        = m_doc.fronts[front_offset + q].slots

(***************************************************************************)
(* Claims about the Traversal Engine: strategies and validation.           *)
(***************************************************************************)
\* Some strategy yields, on markup, an entry that passes validation.
SomeStrategyYieldsValid(markup) ==
    \E outputs \in {StrategyOutputs(markup)} :
        \E k \in 1..Len(outputs) : _remove_duplicates(outputs[k]) # <<>>

\* C30: in a step, when at least one of the five strategies yields an entry
\* that passes validation, the step's validated entry list is not empty.
C30_ValidEntriesNotLost ==
    \A i \in 1..Len(t_stack) :
        (t_stack[i].pc = "loop"
            /\ SomeStrategyYieldsValid(MarkupOf(t_world, t_stack[i].folder_id)))
        => t_stack[i].files # <<>>

====
